---- MODULE Spec2Model ----
(***************************************************************************)
(* A model of the ticket lifecycle (cogs/tickets.py) and of the           *)
(* reaction-role panels (cogs/reactionroles.py) of the bot.               *)
(*                                                                         *)
(* The bot runs on one cooperative event loop: a handler runs without     *)
(* interruption up to its next `await`, and any other handler may run     *)
(* while it is suspended.  Every action below is one such uninterrupted   *)
(* segment of a handler, or one step of the environment (a channel or a   *)
(* role deleted by a moderator, a store that stops being writable, a      *)
(* process restart).                                                       *)
(***************************************************************************)
EXTENDS Integers, Sequences, FiniteSets, Bags, TLC

(* ------------------------------ bounds ------------------------------- *)

\* handlers that may be in flight at the same time
NumHandlers == 2
\* cap on ticket_counter
MaxTickets == 2
\* cap on the channels the guild lets the bot create
MaxChannels == 2
\* cap on the panel messages sent
MaxPanels == 2

\* the members who open tickets
Users == {1, 2}
\* the member who clicks the buttons of the ticket panels; nothing in
\* on_interaction tells staff from requesters, and member 1 is both
Clickers == {1}
TicketIds == 1..MaxTickets
Issues == {"billing question"}

\* Python's None in an optional field
None == 0

VARIABLES
    ticket_counter,   \* ticket_data["ticket_counter"]
    active_tickets,   \* ticket_data["active_tickets"]: ticket number -> record
    closed_tickets,   \* ticket_data["closed_tickets"]: ticket number -> record
    disk,             \* the document in data/tickets.json
    ticket_file,      \* "ok", or what became of data/tickets.json: "missing",
                      \* "corrupt" (json.load raises on what it holds)
    channels,         \* ids of the ticket channels that exist in the guild
    sendPerm,         \* channels on which the requester may send messages
    chanSeq,          \* number of channels created so far (ids are fresh)
    hs,               \* the bag of ticket handlers in flight
    last,             \* what the last step showed to the users: the message it
                      \* sent, or the restart of the bot
    writable,         \* whether data/tickets.json can be written
    cap,              \* how many handlers the event loop has in flight at most
    issued,           \* history: the numbers given to ticket records, in order
    live,             \* history: ids inserted into this registry and not deleted
    TICKET_WEBHOOK,   \* whether the TICKET_WEBHOOK environment variable is set
    webhook,          \* what became of the webhook.send of the last step:
                      \* "sent", "failed" (the exception is printed), or "none"
    reaction_roles_data, \* reaction_roles_data[guild_id]: category -> record
    rr_disk,          \* the document in data/reaction_roles.json
    roles_file,       \* "ok", "missing" or "corrupt", as ticket_file
    views,            \* the bot's view store: message id -> registered view
    messages,         \* the panel messages in the guild: id -> components
    msgSeq,           \* number of panel messages sent so far (ids are fresh)
    guildRoles,       \* the roles that exist in the guild
    memberRoles,      \* the roles of the member who clicks the panels
    rh,               \* the bag of reaction-role handlers in flight
    phase,            \* "starting" until _register_views has run, then "ready"
    oldViews,         \* history, while starting: the view store of the process
                      \* that was restarted
    initialRoles,     \* history: the member's roles at the start
    flipped,          \* history: roles toggled an odd number of times, kept
                      \* as long as no two toggles overlapped
    overlapped        \* history: two toggles of one role were in flight at once

VARIABLES
    sticky_data,      \* sticky_data[guild_id]: what it holds for the channel, or
                      \* NoSticky when the channel has no entry
    sticky_disk,      \* the document in data/stickymessages.json
    posted,           \* ids of the sticky messages of the bot that exist in
                      \* the channel
    stickySeq,        \* number of sticky messages sent so far (ids are fresh)
    sh,               \* the bag of sticky handlers in flight
    removed           \* what the last sticky step showed: "removed" when
                      \* sticky remove has just completed, else "none"

VARIABLES
    family_data,      \* family_data[guild_id]: user id -> record
    family_disk,      \* the document in data/family.json
    fh                \* the bag of family handlers in flight: the proposals
                      \* and the confirmations that wait for their button

svars == <<sticky_data, sticky_disk, posted, stickySeq, sh, removed>>

fvars == <<family_data, family_disk, fh>>

\* the state of the cogs other than tickets and reaction roles
cogs == <<svars, fvars>>

\* the ticket state but for last, writable and cap
treg == <<ticket_counter, active_tickets, closed_tickets, disk, ticket_file, channels,
          sendPerm, chanSeq, hs, issued, live, TICKET_WEBHOOK, webhook>>

tvars == <<ticket_counter, active_tickets, closed_tickets, disk, ticket_file, channels,
           sendPerm, chanSeq, hs, last, writable, cap, issued, live,
           TICKET_WEBHOOK, webhook>>

rvars == <<reaction_roles_data, rr_disk, roles_file, views, messages, msgSeq, guildRoles,
           memberRoles, rh, phase, oldViews, initialRoles, flipped, overlapped>>

vars == <<tvars, rvars, cogs>>

(* ------------------------------ helpers ------------------------------ *)

\* a handler in flight: where it is suspended and its local variables
Handler(pc, op, t, u, chan, saveFailed) ==
    [pc |-> pc, op |-> op, t |-> t, u |-> u, chan |-> chan, saveFailed |-> saveFailed]

Start(r) == hs' = hs (+) SetToBag({r})

Resume(r, r2) == hs' = (hs (-) SetToBag({r})) (+) SetToBag({r2})

Return(r) == hs' = hs (-) SetToBag({r})

InFlight == BagToSet(hs)

\* the event loop takes up one more interaction
Free == BagCardinality(hs) < cap

\* a message to the requester of operation op: on ticket t, or to user u for
\* a creation
NoMsg == [op |-> "none", t |-> 0, u |-> 0, kind |-> "none"]

Msg(op, t, u, kind) == [op |-> op, t |-> t, u |-> u, kind |-> kind]

\* del d[k]
Del(d, k) == [x \in DOMAIN d \ {k} |-> d[x]]

\* d[k] = v
Put(d, k, v) == [x \in DOMAIN d \cup {k} |-> IF x = k THEN v ELSE d[x]]

EmptyMap == [x \in {} |-> 0]

DefaultDoc == [counter |-> 0, active |-> EmptyMap, closed |-> EmptyMap]

\* the document json.dump writes for a registry
Doc(c, a, cl) == [counter |-> c, active |-> a, closed |-> cl]

\* _save_ticket_data: the file is overwritten, or the write raises and the
\* error is printed and swallowed
_save_ticket_data(c, a, cl) ==
    /\ disk' = IF writable THEN Doc(c, a, cl) ELSE disk
    /\ ticket_file' = IF writable THEN "ok" ELSE ticket_file

\* if TICKET_WEBHOOK: try webhook.send(...) except: print(...)
Notify ==
    webhook' \in (IF TICKET_WEBHOOK THEN {"sent", "failed"} ELSE {"none"})

\* a segment without a webhook call
NoNotify == webhook' = "none"

\* the loop at the head of create_ticket and process_ticket_modal
HasActiveTicket(u) == \E t \in DOMAIN active_tickets : active_tickets[t].user_id = u

(* ------------------------- sticky messages ------------------------- *)

\* the guild and the channel the sticky commands and the messages are sent in
StickyGuild == 1
StickyChannel == 1

\* the texts !sticky set is given
StickyTexts == {"rules"}

\* how many sticky messages the bot sends at most in a run
MaxStickies == 4

\* channel_id in self.sticky_data[guild_id], with guild_id in self.sticky_data
HasSticky ==
    /\ StickyGuild \in DOMAIN sticky_data
    /\ StickyChannel \in DOMAIN sticky_data[StickyGuild]

\* a sticky handler in flight: where it is suspended, and the
\* last_message_id and the message it read before its first await
StickyHandler(pc, lid, message) == [pc |-> pc, lid |-> lid, message |-> message]

\* the event loop takes up one more command or message, and the bot has
\* a sticky message left to send for it
StickyFree ==
    /\ BagCardinality(sh) < cap
    /\ stickySeq + BagCardinality(sh) < MaxStickies

StickyReturn(r) == sh' = sh (-) SetToBag({r})

StickyResume(r, pc) ==
    sh' = (sh (-) SetToBag({r})) (+) SetToBag({StickyHandler(pc, r.lid, r.message)})

\* no data/stickymessages.json yet, no sticky message in the channel
InitSticky ==
    /\ sticky_data = EmptyMap
    /\ sticky_disk = EmptyMap
    /\ posted = {}
    /\ stickySeq = 0
    /\ sh = EmptyBag
    /\ removed = "none"

\* !sticky set <message>, up to its ctx.send(embed=embed)
sticky_set(message) ==
    /\ StickyFree
    /\ sticky_data' = IF StickyGuild \in DOMAIN sticky_data THEN sticky_data
                      ELSE (StickyGuild :> EmptyMap)
    /\ sh' = sh (+) SetToBag({StickyHandler("set_send", None, message)})
    /\ removed' = "none"
    /\ UNCHANGED <<sticky_disk, posted, stickySeq>>
    /\ UNCHANGED <<tvars, rvars, fvars>>

\* the sticky message is in the channel: sticky_set records it and saves.
\* With the guild's dict deleted meanwhile the assignment raises KeyError
sticky_set_sent(r) ==
    /\ r.pc = "set_send"
    /\ stickySeq' = stickySeq + 1
    /\ posted' = posted \cup {stickySeq'}
    /\ IF StickyGuild \in DOMAIN sticky_data
       THEN /\ sticky_data' =
                 [sticky_data EXCEPT ![StickyGuild] =
                     (StickyChannel :> [message |-> r.message,
                                        last_message_id |-> stickySeq'])
                     @@ sticky_data[StickyGuild]]
            /\ sticky_disk' = sticky_data'
       ELSE UNCHANGED <<sticky_data, sticky_disk>>
    /\ StickyReturn(r)
    /\ removed' = "none"
    /\ UNCHANGED <<tvars, rvars, fvars>>

\* !sticky remove, up to its fetch_message; without an entry it answers
\* "No Sticky Message"
sticky_remove ==
    /\ BagCardinality(sh) < cap
    /\ IF HasSticky
       THEN sh' = sh (+) SetToBag({StickyHandler("remove_delete",
                     sticky_data[StickyGuild][StickyChannel].last_message_id, "")})
       ELSE UNCHANGED sh
    /\ removed' = "none"
    /\ UNCHANGED <<sticky_data, sticky_disk, posted, stickySeq>>
    /\ UNCHANGED <<tvars, rvars, fvars>>

\* fetch_message and delete have returned or raised (the exception is
\* passed over): sticky_remove deletes the entry, and the guild's dict when
\* it is empty, and saves. With the entry gone meanwhile del raises KeyError
sticky_remove_deleted(r) ==
    /\ r.pc = "remove_delete"
    /\ posted' = posted \ {r.lid}
    /\ IF HasSticky
       THEN /\ sticky_data' =
                 [g \in {h \in DOMAIN sticky_data :
                            DOMAIN sticky_data[h] # {StickyChannel}} |->
                     [c \in DOMAIN sticky_data[g] \ {StickyChannel} |->
                         sticky_data[g][c]]]
            /\ sticky_disk' = sticky_data'
            /\ removed' = "removed"
       ELSE /\ UNCHANGED <<sticky_data, sticky_disk>>
            /\ removed' = "none"
    /\ StickyReturn(r)
    /\ UNCHANGED stickySeq
    /\ UNCHANGED <<tvars, rvars, fvars>>

\* on_message for a message of a user (one of a bot returns at once), up to
\* its fetch_message: without an entry for the channel it returns
on_message ==
    /\ StickyFree
    /\ HasSticky
    /\ sh' = sh (+) SetToBag({StickyHandler("repost_delete",
                 sticky_data[StickyGuild][StickyChannel].last_message_id,
                 sticky_data[StickyGuild][StickyChannel].message)})
    /\ removed' = "none"
    /\ UNCHANGED <<sticky_data, sticky_disk, posted, stickySeq>>
    /\ UNCHANGED <<tvars, rvars, fvars>>

\* fetch_message and delete have returned or raised (the exception is
\* passed over): on_message goes on to message.channel.send
on_message_deleted(r) ==
    /\ r.pc = "repost_delete"
    /\ posted' = posted \ {r.lid}
    /\ StickyResume(r, "repost_send")
    /\ removed' = "none"
    /\ UNCHANGED <<sticky_data, sticky_disk, stickySeq>>
    /\ UNCHANGED <<tvars, rvars, fvars>>

\* the new sticky message is in the channel: on_message records its id in
\* the entry it looks up again, and saves. With the entry gone meanwhile the
\* lookup raises KeyError
on_message_sent(r) ==
    /\ r.pc = "repost_send"
    /\ stickySeq' = stickySeq + 1
    /\ posted' = posted \cup {stickySeq'}
    /\ IF HasSticky
       THEN /\ sticky_data' =
                 [sticky_data EXCEPT
                     ![StickyGuild][StickyChannel].last_message_id = stickySeq']
            /\ sticky_disk' = sticky_data'
       ELSE UNCHANGED <<sticky_data, sticky_disk>>
    /\ StickyReturn(r)
    /\ removed' = "none"
    /\ UNCHANGED <<tvars, rvars, fvars>>

NextSticky ==
    \/ \E message \in StickyTexts : sticky_set(message)
    \/ sticky_remove
    \/ on_message
    \/ \E r \in BagToSet(sh) :
          \/ sticky_set_sent(r)
          \/ sticky_remove_deleted(r)
          \/ on_message_deleted(r)
          \/ on_message_sent(r)

(* ------------------------------ family ------------------------------ *)

\* the members who give the family commands
FamilyUsers == {1, 2, 3}

\* the record get_user_family creates
NewFamily == [Partner |-> None, Parent |-> {}, Children |-> {}]

\* the registry after get_user_family(guild_id, u): the record is created
\* when it is missing
get_user_family(fd, u) ==
    IF u \in DOMAIN fd THEN fd ELSE (u :> NewFamily) @@ fd

\* a family handler in flight, suspended in wait_for("interaction")
FamilyHandler(op, author, user) == [op |-> op, author |-> author, user |-> user]

FamilyFree == BagCardinality(fh) < cap

FamilyReturn(r) == fh' = fh (-) SetToBag({r})

\* no data/family.json yet
InitFamily ==
    /\ family_data = EmptyMap
    /\ family_disk = EmptyMap
    /\ fh = EmptyBag

InitCogs == InitSticky /\ InitFamily

\* !propose <user>, up to wait_for: the records of both are created, and
\* the proposal is sent unless one of them is married or they are family
propose(author, user) ==
    /\ FamilyFree
    /\ IF author = user
       THEN UNCHANGED <<family_data, fh>>
       ELSE LET fd == get_user_family(get_user_family(family_data, author), user)
            IN /\ family_data' = fd
               /\ IF \/ fd[author].Partner # None
                     \/ fd[user].Partner # None
                     \/ user \in fd[author].Children
                     \/ author \in fd[user].Children
                     \/ user \in fd[author].Parent
                     \/ author \in fd[user].Parent
                  THEN UNCHANGED fh
                  ELSE fh' = fh (+) SetToBag({FamilyHandler("propose", author, user)})
    /\ UNCHANGED family_disk
    /\ UNCHANGED <<tvars, rvars, svars>>

\* the user clicks Accept: both records are looked up again, each is given
\* the other as Partner, and the registry is saved
propose_yes(r) ==
    /\ r.op = "propose"
    /\ LET fd == get_user_family(get_user_family(family_data, r.author), r.user)
       IN family_data' = [fd EXCEPT ![r.author].Partner = r.user,
                                    ![r.user].Partner = r.author]
    /\ family_disk' = family_data'
    /\ FamilyReturn(r)
    /\ UNCHANGED <<tvars, rvars, svars>>

\* the user clicks Decline, or wait_for times out
propose_no(r) ==
    /\ r.op = "propose"
    /\ FamilyReturn(r)
    /\ UNCHANGED <<family_data, family_disk>>
    /\ UNCHANGED <<tvars, rvars, svars>>

\* !divorce [user]: user is None when the command names nobody
divorce(author, user) ==
    /\ FamilyFree
    /\ LET fd == get_user_family(family_data, author)
           partner_id == fd[author].Partner
       IN IF partner_id = None \/ (user # None /\ user # partner_id)
          THEN /\ family_data' = fd
               /\ UNCHANGED family_disk
          ELSE /\ family_data' =
                    [get_user_family(fd, partner_id) EXCEPT
                        ![author].Partner = None, ![partner_id].Partner = None]
               /\ family_disk' = family_data'
    /\ UNCHANGED fh
    /\ UNCHANGED <<tvars, rvars, svars>>

\* !deletefamily, up to wait_for
delete_family(author) ==
    /\ FamilyFree
    /\ fh' = fh (+) SetToBag({FamilyHandler("deletefamily", author, author)})
    /\ UNCHANGED <<family_data, family_disk>>
    /\ UNCHANGED <<tvars, rvars, svars>>

\* the record of user_id taken out of the others' records: the partner's
\* Partner is cleared, the parents' Children and the children's Parent lose
\* user_id
Detached(fd, user_id) ==
    [u \in DOMAIN fd |->
        [Partner |-> IF u = fd[user_id].Partner /\ u # user_id THEN None
                     ELSE fd[u].Partner,
         Parent |-> IF u \in fd[user_id].Children /\ u # user_id
                    THEN fd[u].Parent \ {user_id} ELSE fd[u].Parent,
         Children |-> IF u \in fd[user_id].Parent /\ u # user_id
                      THEN fd[u].Children \ {user_id} ELSE fd[u].Children]]

\* the author clicks Yes: with a record, the author is taken out of the
\* others' records, the record is deleted and the registry is saved
delete_family_yes(r) ==
    /\ r.op = "deletefamily"
    /\ IF r.author \in DOMAIN family_data
       THEN /\ family_data' =
                 [u \in DOMAIN family_data \ {r.author} |->
                     Detached(family_data, r.author)[u]]
            /\ family_disk' = family_data'
       ELSE UNCHANGED <<family_data, family_disk>>
    /\ FamilyReturn(r)
    /\ UNCHANGED <<tvars, rvars, svars>>

\* the author clicks No, or wait_for times out
delete_family_no(r) ==
    /\ r.op = "deletefamily"
    /\ FamilyReturn(r)
    /\ UNCHANGED <<family_data, family_disk>>
    /\ UNCHANGED <<tvars, rvars, svars>>

NextFamily ==
    \/ \E author, user \in FamilyUsers : propose(author, user)
    \/ \E author \in FamilyUsers, user \in FamilyUsers \cup {None} :
          divorce(author, user)
    \/ \E author \in FamilyUsers : delete_family(author)
    \/ \E r \in BagToSet(fh) :
          \/ propose_yes(r)
          \/ propose_no(r)
          \/ delete_family_yes(r)
          \/ delete_family_no(r)

InitTickets ==
    /\ ticket_counter = 0
    /\ active_tickets = EmptyMap
    /\ closed_tickets = EmptyMap
    /\ disk = DefaultDoc
    /\ ticket_file = "ok"
    /\ channels = {}
    /\ sendPerm = {}
    /\ chanSeq = 0
    /\ hs = EmptyBag
    /\ last = NoMsg
    /\ writable = TRUE
    /\ issued = <<>>
    /\ live = {}
    /\ webhook = "none"

\* the reaction-role categories, emojis and role ids the commands are given
Categories == {"colors"}
Emojis == {"red"}
Roles == {1, 2}
\* the channel the panels are sent to
PanelChannel == 1

\* no data/reaction_roles.json yet, no panel sent, every role in the guild
InitReactionRoles ==
    /\ reaction_roles_data = EmptyMap
    /\ rr_disk = EmptyMap
    /\ roles_file = "missing"
    /\ views = EmptyMap
    /\ messages = EmptyMap
    /\ msgSeq = 0
    /\ guildRoles = Roles
    /\ memberRoles = initialRoles
    /\ rh = EmptyBag
    /\ phase = "ready"
    /\ oldViews = EmptyMap
    /\ flipped = {}
    /\ overlapped = FALSE

Init ==
    /\ InitTickets
    /\ InitCogs
    /\ cap = NumHandlers
    /\ TICKET_WEBHOOK = FALSE
    /\ initialRoles = {}
    /\ InitReactionRoles

(* ----------------------- tickets: create ------------------------------ *)

\* as CreateBegin, with the number allocated before the duplicate guard
CreateBegin_alloc_first(u, o) ==
    /\ Free
    /\ ticket_counter < MaxTickets
    /\ ticket_counter' = ticket_counter + 1
    /\ IF HasActiveTicket(u)
       THEN /\ last' = Msg(o, 0, u, "rejected")
            /\ UNCHANGED hs
       ELSE /\ Start(Handler("channel", o, ticket_counter + 1, u, None, FALSE))
            /\ last' = NoMsg
    /\ UNCHANGED <<active_tickets, closed_tickets, disk, ticket_file, channels, sendPerm,
                   chanSeq, writable, cap, issued, live>>
    /\ UNCHANGED <<rvars, cogs>>
    /\ NoNotify
    /\ UNCHANGED TICKET_WEBHOOK

\* The first segment of create_ticket / process_ticket_modal (o tells which):
\* the duplicate guard, then the allocation of the number, up to the await
\* of guild.create_text_channel.
CreateBegin(u, o) ==
    /\ Free
    /\ IF HasActiveTicket(u)
       THEN /\ last' = Msg(o, 0, u, "rejected")
            /\ UNCHANGED <<ticket_counter, hs>>
       ELSE /\ ticket_counter < MaxTickets
            /\ ticket_counter' = ticket_counter + 1
            /\ Start(Handler("channel", o, ticket_counter + 1, u, None, FALSE))
            /\ last' = NoMsg
    /\ UNCHANGED <<active_tickets, closed_tickets, disk, ticket_file, channels, sendPerm,
                   chanSeq, writable, cap, issued, live>>
    /\ UNCHANGED <<rvars, cogs>>
    /\ NoNotify
    /\ UNCHANGED TICKET_WEBHOOK

create_ticket(u) == CreateBegin(u, "create")

process_ticket_modal(u) == CreateBegin(u, "modal")

\* create_text_channel returns: the record is inserted, the store is saved
\* and "Ticket created!" is sent.  Or it raises: the except branch reports
\* the error and the handler ends with the number already taken.
create_ticket_channel(r) ==
    /\ r.pc = "channel"
    /\ \/ /\ chanSeq < MaxChannels
          /\ \E i \in Issues :
               LET c == chanSeq + 1
                   rec == [user_id |-> r.u, channel_id |-> c, issue |-> i,
                           created_at |-> "set", status |-> "open",
                           claimed_by |-> None, claimed_at |-> "unset",
                           closed_by |-> None, closed_at |-> "unset",
                           reopened_by |-> None, reopened_at |-> "unset"]
               IN /\ chanSeq' = c
                  /\ channels' = channels \cup {c}
                  /\ sendPerm' = sendPerm \cup {c}
                  /\ active_tickets' = Put(active_tickets, r.t, rec)
                  /\ _save_ticket_data(ticket_counter, active_tickets', closed_tickets)
                  /\ Resume(r, Handler("panel", r.op, r.t, r.u, c, ~writable))
                  /\ last' = Msg(r.op, r.t, r.u, "success")
                  /\ issued' = Append(issued, r.t)
                  /\ live' = live \cup {r.t}
          /\ UNCHANGED <<ticket_counter, closed_tickets, writable, cap>>
       \/ /\ Return(r)
          /\ last' = Msg(r.op, r.t, r.u, "error")
          /\ UNCHANGED <<ticket_counter, active_tickets, closed_tickets, disk, ticket_file,
                         channels, sendPerm, chanSeq, writable, cap, issued, live>>
    /\ UNCHANGED <<rvars, cogs>>
    /\ NoNotify
    /\ UNCHANGED TICKET_WEBHOOK

\* The last segment: the webhook notification (no effect on the registry)
\* and the panel sent into the new channel.  When the channel is gone the
\* send raises; create_ticket's except branch then calls
\* interaction.response.send_message a second time, which raises as well
\* and sends nothing, while process_ticket_modal sends a followup.
create_ticket_panel(r) ==
    /\ r.pc = "panel"
    /\ Return(r)
    /\ last' = IF r.chan \in channels
               THEN Msg(r.op, r.t, r.u, "panel")
               ELSE IF r.op = "modal"
                    THEN Msg(r.op, r.t, r.u, "error")
                    ELSE NoMsg
    /\ UNCHANGED <<ticket_counter, active_tickets, closed_tickets, disk, ticket_file, channels,
                   sendPerm, chanSeq, writable, cap, issued, live>>
    /\ UNCHANGED <<rvars, cogs>>
    /\ Notify
    /\ UNCHANGED TICKET_WEBHOOK

(* ----------------------- tickets: claim ------------------------------- *)

\* as claim_ticket, with a ticket that is claimed already turned away
claim_ticket_once(u, t) ==
    /\ Free
    /\ IF t \notin DOMAIN active_tickets
       THEN /\ last' = Msg("claim", t, 0, "rejected")
            /\ UNCHANGED <<active_tickets, disk, ticket_file, hs>>
       ELSE IF active_tickets[t].claimed_by # None
       THEN /\ last' = Msg("claim", t, 0, "rejected")
            /\ UNCHANGED <<active_tickets, disk, ticket_file, hs>>
       ELSE /\ active_tickets' = [active_tickets EXCEPT ![t].claimed_by = u,
                                                       ![t].claimed_at = "set"]
            /\ _save_ticket_data(ticket_counter, active_tickets', closed_tickets)
            /\ Start(Handler("notify", "claim", t, 0, None, ~writable))
            /\ last' = Msg("claim", t, 0, "success")
    /\ UNCHANGED <<ticket_counter, closed_tickets, channels, sendPerm, chanSeq,
                   writable, cap, issued, live>>
    /\ UNCHANGED <<rvars, cogs>>
    /\ NoNotify
    /\ UNCHANGED TICKET_WEBHOOK

\* as claim_ticket, with the claimer written as the owner of the ticket
claim_ticket_takes_over(u, t) ==
    /\ Free
    /\ IF t \notin DOMAIN active_tickets
       THEN /\ last' = Msg("claim", t, 0, "rejected")
            /\ UNCHANGED <<active_tickets, disk, ticket_file, hs>>
       ELSE /\ active_tickets' = [active_tickets EXCEPT ![t].claimed_by = u,
                                                       ![t].claimed_at = "set",
                                                       ![t].user_id = u]
            /\ _save_ticket_data(ticket_counter, active_tickets', closed_tickets)
            /\ Start(Handler("notify", "claim", t, 0, None, ~writable))
            /\ last' = Msg("claim", t, 0, "success")
    /\ UNCHANGED <<ticket_counter, closed_tickets, channels, sendPerm, chanSeq,
                   writable, cap, issued, live>>
    /\ UNCHANGED <<rvars, cogs>>
    /\ NoNotify
    /\ UNCHANGED TICKET_WEBHOOK

claim_ticket(u, t) ==
    /\ Free
    /\ IF t \notin DOMAIN active_tickets
       THEN /\ last' = Msg("claim", t, 0, "rejected")
            /\ UNCHANGED <<active_tickets, disk, ticket_file, hs>>
       ELSE /\ active_tickets' = [active_tickets EXCEPT ![t].claimed_by = u,
                                                       ![t].claimed_at = "set"]
            /\ _save_ticket_data(ticket_counter, active_tickets', closed_tickets)
            /\ Start(Handler("notify", "claim", t, 0, None, ~writable))
            /\ last' = Msg("claim", t, 0, "success")
    /\ UNCHANGED <<ticket_counter, closed_tickets, channels, sendPerm, chanSeq,
                   writable, cap, issued, live>>
    /\ UNCHANGED <<rvars, cogs>>
    /\ NoNotify
    /\ UNCHANGED TICKET_WEBHOOK

\* the response is delivered and the webhook notified; the handler returns
claim_ticket_notify(r) ==
    /\ r.pc = "notify"
    /\ Return(r)
    /\ last' = NoMsg
    /\ UNCHANGED <<ticket_counter, active_tickets, closed_tickets, disk, ticket_file, channels,
                   sendPerm, chanSeq, writable, cap, issued, live>>
    /\ UNCHANGED <<rvars, cogs>>
    /\ Notify
    /\ UNCHANGED TICKET_WEBHOOK

(* ----------------------- tickets: close ------------------------------- *)

\* as close_ticket, without the del of the record from active_tickets
close_ticket_keep(u, t) ==
    /\ Free
    /\ IF t \notin DOMAIN active_tickets
       THEN /\ last' = Msg("close", t, 0, "rejected")
            /\ UNCHANGED <<active_tickets, closed_tickets, disk, ticket_file, hs>>
       ELSE IF active_tickets[t].channel_id \notin channels
       THEN /\ last' = Msg("close", t, 0, "rejected")
            /\ UNCHANGED <<active_tickets, closed_tickets, disk, ticket_file, hs>>
       ELSE LET ticket == [active_tickets[t] EXCEPT !.status = "closed", !.closed_by = u,
                                                 !.closed_at = "set"]
            IN /\ closed_tickets' = Put(closed_tickets, t, ticket)
               /\ active_tickets' = [active_tickets EXCEPT ![t] = ticket]
               /\ _save_ticket_data(ticket_counter, active_tickets', closed_tickets')
               /\ Start(Handler("perm", "close", t, 0, ticket.channel_id, ~writable))
               /\ last' = NoMsg
    /\ UNCHANGED <<ticket_counter, channels, sendPerm, chanSeq, writable, cap,
                   issued, live>>
    /\ UNCHANGED <<rvars, cogs>>
    /\ NoNotify
    /\ UNCHANGED TICKET_WEBHOOK

close_ticket(u, t) ==
    /\ Free
    /\ IF t \notin DOMAIN active_tickets
       THEN /\ last' = Msg("close", t, 0, "rejected")
            /\ UNCHANGED <<active_tickets, closed_tickets, disk, ticket_file, hs>>
       ELSE IF active_tickets[t].channel_id \notin channels
       THEN /\ last' = Msg("close", t, 0, "rejected")
            /\ UNCHANGED <<active_tickets, closed_tickets, disk, ticket_file, hs>>
       ELSE LET ticket == [active_tickets[t] EXCEPT !.status = "closed", !.closed_by = u,
                                                 !.closed_at = "set"]
            IN /\ closed_tickets' = Put(closed_tickets, t, ticket)
               /\ active_tickets' = Del(active_tickets, t)
               /\ _save_ticket_data(ticket_counter, active_tickets', closed_tickets')
               /\ Start(Handler("perm", "close", t, 0, ticket.channel_id, ~writable))
               /\ last' = NoMsg
    /\ UNCHANGED <<ticket_counter, channels, sendPerm, chanSeq, writable, cap,
                   issued, live>>
    /\ UNCHANGED <<rvars, cogs>>
    /\ NoNotify
    /\ UNCHANGED TICKET_WEBHOOK

\* as close_ticket_perm, with the error of set_permissions only printed
close_ticket_perm_silent(r) ==
    /\ r.pc = "perm"
    /\ r.op = "close"
    /\ Return(r)
    /\ IF r.chan \in channels
       THEN /\ sendPerm' = sendPerm \ {r.chan}
            /\ last' = Msg("close", r.t, 0, "success")
       ELSE /\ sendPerm' = sendPerm
            /\ last' = NoMsg
    /\ UNCHANGED <<ticket_counter, active_tickets, closed_tickets, disk, ticket_file, channels,
                   chanSeq, writable, cap, issued, live>>
    /\ UNCHANGED <<rvars, cogs>>
    /\ IF r.chan \in channels THEN Notify ELSE NoNotify
    /\ UNCHANGED TICKET_WEBHOOK

\* channel.set_permissions(ticket_creator, send_messages=False), then the
\* "closed" panel as the response; set_permissions raises when the channel
\* was deleted meanwhile and the except branch reports the error
close_ticket_perm(r) ==
    /\ r.pc = "perm"
    /\ r.op = "close"
    /\ Return(r)
    /\ IF r.chan \in channels
       THEN /\ sendPerm' = sendPerm \ {r.chan}
            /\ last' = Msg("close", r.t, 0, "success")
       ELSE /\ sendPerm' = sendPerm
            /\ last' = Msg("close", r.t, 0, "error")
    /\ UNCHANGED <<ticket_counter, active_tickets, closed_tickets, disk, ticket_file, channels,
                   chanSeq, writable, cap, issued, live>>
    /\ UNCHANGED <<rvars, cogs>>
    /\ IF r.chan \in channels THEN Notify ELSE NoNotify
    /\ UNCHANGED TICKET_WEBHOOK

(* ----------------------- tickets: reopen ------------------------------ *)

\* as reopen_ticket, with the claim taken off the reopened record
reopen_ticket_unclaims(u, t) ==
    /\ Free
    /\ IF t \notin DOMAIN closed_tickets
       THEN /\ last' = Msg("reopen", t, 0, "rejected")
            /\ UNCHANGED <<active_tickets, closed_tickets, disk, ticket_file, hs>>
       ELSE IF closed_tickets[t].channel_id \notin channels
       THEN /\ last' = Msg("reopen", t, 0, "rejected")
            /\ UNCHANGED <<active_tickets, closed_tickets, disk, ticket_file, hs>>
       ELSE LET ticket == [closed_tickets[t] EXCEPT !.status = "open", !.reopened_by = u,
                                                 !.reopened_at = "set",
                                                 !.claimed_by = None,
                                                 !.claimed_at = "unset"]
            IN /\ active_tickets' = Put(active_tickets, t, ticket)
               /\ closed_tickets' = Del(closed_tickets, t)
               /\ _save_ticket_data(ticket_counter, active_tickets', closed_tickets')
               /\ Start(Handler("perm", "reopen", t, 0, ticket.channel_id, ~writable))
               /\ last' = NoMsg
    /\ UNCHANGED <<ticket_counter, channels, sendPerm, chanSeq, writable, cap,
                   issued, live>>
    /\ UNCHANGED <<rvars, cogs>>
    /\ NoNotify
    /\ UNCHANGED TICKET_WEBHOOK

\* as reopen_ticket, without the write of the status
reopen_ticket_status_kept(u, t) ==
    /\ Free
    /\ IF t \notin DOMAIN closed_tickets
       THEN /\ last' = Msg("reopen", t, 0, "rejected")
            /\ UNCHANGED <<active_tickets, closed_tickets, disk, ticket_file, hs>>
       ELSE IF closed_tickets[t].channel_id \notin channels
       THEN /\ last' = Msg("reopen", t, 0, "rejected")
            /\ UNCHANGED <<active_tickets, closed_tickets, disk, ticket_file, hs>>
       ELSE LET ticket == [closed_tickets[t] EXCEPT !.reopened_by = u,
                                                 !.reopened_at = "set"]
            IN /\ active_tickets' = Put(active_tickets, t, ticket)
               /\ closed_tickets' = Del(closed_tickets, t)
               /\ _save_ticket_data(ticket_counter, active_tickets', closed_tickets')
               /\ Start(Handler("perm", "reopen", t, 0, ticket.channel_id, ~writable))
               /\ last' = NoMsg
    /\ UNCHANGED <<ticket_counter, channels, sendPerm, chanSeq, writable, cap,
                   issued, live>>
    /\ UNCHANGED <<rvars, cogs>>
    /\ NoNotify
    /\ UNCHANGED TICKET_WEBHOOK

reopen_ticket(u, t) ==
    /\ Free
    /\ IF t \notin DOMAIN closed_tickets
       THEN /\ last' = Msg("reopen", t, 0, "rejected")
            /\ UNCHANGED <<active_tickets, closed_tickets, disk, ticket_file, hs>>
       ELSE IF closed_tickets[t].channel_id \notin channels
       THEN /\ last' = Msg("reopen", t, 0, "rejected")
            /\ UNCHANGED <<active_tickets, closed_tickets, disk, ticket_file, hs>>
       ELSE LET ticket == [closed_tickets[t] EXCEPT !.status = "open", !.reopened_by = u,
                                                 !.reopened_at = "set"]
            IN /\ active_tickets' = Put(active_tickets, t, ticket)
               /\ closed_tickets' = Del(closed_tickets, t)
               /\ _save_ticket_data(ticket_counter, active_tickets', closed_tickets')
               /\ Start(Handler("perm", "reopen", t, 0, ticket.channel_id, ~writable))
               /\ last' = NoMsg
    /\ UNCHANGED <<ticket_counter, channels, sendPerm, chanSeq, writable, cap,
                   issued, live>>
    /\ UNCHANGED <<rvars, cogs>>
    /\ NoNotify
    /\ UNCHANGED TICKET_WEBHOOK

reopen_ticket_perm(r) ==
    /\ r.pc = "perm"
    /\ r.op = "reopen"
    /\ Return(r)
    /\ IF r.chan \in channels
       THEN /\ sendPerm' = sendPerm \cup {r.chan}
            /\ last' = Msg("reopen", r.t, 0, "success")
       ELSE /\ sendPerm' = sendPerm
            /\ last' = Msg("reopen", r.t, 0, "error")
    /\ UNCHANGED <<ticket_counter, active_tickets, closed_tickets, disk, ticket_file, channels,
                   chanSeq, writable, cap, issued, live>>
    /\ UNCHANGED <<rvars, cogs>>
    /\ IF r.chan \in channels THEN Notify ELSE NoNotify
    /\ UNCHANGED TICKET_WEBHOOK

(* ----------------------- tickets: delete ------------------------------ *)

\* the guard, the channel looked up once, and the "is being deleted"
\* response, up to the await of that response
delete_ticket(u, t) ==
    /\ Free
    /\ IF t \notin DOMAIN closed_tickets
       THEN /\ last' = Msg("delete", t, 0, "rejected")
            /\ hs' = hs
       ELSE LET c == closed_tickets[t].channel_id
            IN /\ Start(Handler("remove", "delete", t, 0,
                                IF c \in channels THEN c ELSE None, FALSE))
               /\ last' = Msg("delete", t, 0, "success")
    /\ UNCHANGED <<ticket_counter, active_tickets, closed_tickets, disk, ticket_file, channels,
                   sendPerm, chanSeq, writable, cap, issued, live>>
    /\ UNCHANGED <<rvars, cogs>>
    /\ NoNotify
    /\ UNCHANGED TICKET_WEBHOOK

\* as delete_ticket_remove, with the record popped from whichever map holds it
delete_ticket_remove_any(r) ==
    /\ r.pc = "remove"
    /\ IF r.t \in DOMAIN closed_tickets \cup DOMAIN active_tickets
       THEN /\ closed_tickets' = Del(closed_tickets, r.t)
            /\ active_tickets' = Del(active_tickets, r.t)
            /\ _save_ticket_data(ticket_counter, active_tickets', closed_tickets')
            /\ live' = live \ {r.t}
            /\ IF r.chan # None
               THEN Resume(r, Handler("sleep", "delete", r.t, 0, r.chan, ~writable))
               ELSE Return(r)
       ELSE /\ Return(r)
            /\ UNCHANGED <<active_tickets, closed_tickets, disk, ticket_file, live>>
    /\ last' = NoMsg
    /\ UNCHANGED <<ticket_counter, channels, sendPerm, chanSeq, writable, cap, issued>>
    /\ UNCHANGED <<rvars, cogs>>
    /\ Notify
    /\ UNCHANGED TICKET_WEBHOOK

\* as delete_ticket_remove, with the exception of webhook.send not caught
\* around the call: it ends the handler before the del
delete_ticket_remove_hook_raises(r) ==
    /\ r.pc = "remove"
    /\ Notify
    /\ IF r.t \in DOMAIN closed_tickets /\ webhook' # "failed"
       THEN /\ closed_tickets' = Del(closed_tickets, r.t)
            /\ _save_ticket_data(ticket_counter, active_tickets, closed_tickets')
            /\ live' = live \ {r.t}
            /\ IF r.chan # None
               THEN Resume(r, Handler("sleep", "delete", r.t, 0, r.chan, ~writable))
               ELSE Return(r)
       ELSE /\ Return(r)
            /\ UNCHANGED <<closed_tickets, disk, ticket_file, live>>
    /\ last' = NoMsg
    /\ UNCHANGED <<ticket_counter, active_tickets, channels, sendPerm, chanSeq,
                   writable, cap, issued>>
    /\ UNCHANGED <<rvars, cogs>>
    /\ UNCHANGED TICKET_WEBHOOK

\* after the response and the webhook: del closed_tickets[ticket_id] and the
\* save.  The del raises KeyError when the record has left closed_tickets
\* meanwhile; the except branch then fails to respond a second time.
\* as delete_ticket_remove, with the KeyError of the del passed over: the
\* handler goes on to the sleep and channel.delete
delete_ticket_remove_goes_on(r) ==
    /\ r.pc = "remove"
    /\ IF r.t \in DOMAIN closed_tickets
       THEN /\ closed_tickets' = Del(closed_tickets, r.t)
            /\ _save_ticket_data(ticket_counter, active_tickets, closed_tickets')
            /\ live' = live \ {r.t}
            /\ IF r.chan # None
               THEN Resume(r, Handler("sleep", "delete", r.t, 0, r.chan, ~writable))
               ELSE Return(r)
       ELSE /\ IF r.chan # None
               THEN Resume(r, Handler("sleep", "delete", r.t, 0, r.chan, FALSE))
               ELSE Return(r)
            /\ UNCHANGED <<closed_tickets, disk, ticket_file, live>>
    /\ last' = NoMsg
    /\ UNCHANGED <<ticket_counter, active_tickets, channels, sendPerm, chanSeq,
                   writable, cap, issued>>
    /\ UNCHANGED <<rvars, cogs>>
    /\ Notify
    /\ UNCHANGED TICKET_WEBHOOK

delete_ticket_remove(r) ==
    /\ r.pc = "remove"
    /\ IF r.t \in DOMAIN closed_tickets
       THEN /\ closed_tickets' = Del(closed_tickets, r.t)
            /\ _save_ticket_data(ticket_counter, active_tickets, closed_tickets')
            /\ live' = live \ {r.t}
            /\ IF r.chan # None
               THEN Resume(r, Handler("sleep", "delete", r.t, 0, r.chan, ~writable))
               ELSE Return(r)
       ELSE /\ Return(r)
            /\ UNCHANGED <<closed_tickets, disk, ticket_file, live>>
    /\ last' = NoMsg
    /\ UNCHANGED <<ticket_counter, active_tickets, channels, sendPerm, chanSeq,
                   writable, cap, issued>>
    /\ UNCHANGED <<rvars, cogs>>
    /\ Notify
    /\ UNCHANGED TICKET_WEBHOOK

\* asyncio.sleep(5) is over: channel.delete
delete_ticket_channel(r) ==
    /\ r.pc = "sleep"
    /\ Return(r)
    /\ channels' = channels \ {r.chan}
    /\ sendPerm' = sendPerm \ {r.chan}
    /\ last' = NoMsg
    /\ UNCHANGED <<ticket_counter, active_tickets, closed_tickets, disk, ticket_file, chanSeq,
                   writable, cap, issued, live>>
    /\ UNCHANGED <<rvars, cogs>>
    /\ NoNotify
    /\ UNCHANGED TICKET_WEBHOOK

(* ----------------------- tickets: environment ------------------------- *)

\* a moderator deletes a ticket channel by hand
ChannelDeleted(c) ==
    /\ c \in channels
    /\ channels' = channels \ {c}
    /\ sendPerm' = sendPerm \ {c}
    /\ last' = NoMsg
    /\ UNCHANGED <<ticket_counter, active_tickets, closed_tickets, disk, ticket_file, chanSeq,
                   hs, writable, cap, issued, live>>
    /\ UNCHANGED <<rvars, cogs>>
    /\ NoNotify
    /\ UNCHANGED TICKET_WEBHOOK

\* as _load_ticket_data, with what the file held last taken as the document
\* whatever has become of the file
_load_ticket_data_unguarded ==
    /\ ticket_counter' = disk.counter
    /\ active_tickets' = disk.active
    /\ closed_tickets' = disk.closed
    /\ hs' = EmptyBag
    /\ last' = Msg("restart", 0, 0, "none")
    /\ live' = DOMAIN disk.active \cup DOMAIN disk.closed
    /\ UNCHANGED <<disk, ticket_file, channels, sendPerm, chanSeq, writable, cap, issued>>
    /\ UNCHANGED <<rvars, cogs>>
    /\ NoNotify
    /\ UNCHANGED TICKET_WEBHOOK

\* what json.load gives for data/tickets.json, or the default document when
\* the file is not there or json.load raises
LoadedTickets == IF ticket_file = "ok" THEN disk ELSE DefaultDoc

\* _load_ticket_data, run by Tickets.__init__ when the process starts again:
\* the handlers in flight are gone and the registry is what the file holds.
\* A file that is missing is written with the default document.
_load_ticket_data ==
    /\ ticket_counter' = LoadedTickets.counter
    /\ active_tickets' = LoadedTickets.active
    /\ closed_tickets' = LoadedTickets.closed
    /\ IF ticket_file = "missing"
       THEN _save_ticket_data(ticket_counter', active_tickets', closed_tickets')
       ELSE UNCHANGED <<disk, ticket_file>>
    /\ hs' = EmptyBag
    /\ last' = Msg("restart", 0, 0, "none")
    /\ live' = DOMAIN LoadedTickets.active \cup DOMAIN LoadedTickets.closed
    /\ UNCHANGED <<channels, sendPerm, chanSeq, writable, cap, issued>>
    /\ UNCHANGED <<rvars, cogs>>
    /\ NoNotify
    /\ UNCHANGED TICKET_WEBHOOK

\* data/tickets.json is deleted under the running process
TicketFileLost ==
    /\ ticket_file = "ok"
    /\ ticket_file' = "missing"
    /\ last' = NoMsg
    /\ UNCHANGED <<ticket_counter, active_tickets, closed_tickets, disk, channels,
                   sendPerm, chanSeq, hs, writable, cap, issued, live>>
    /\ UNCHANGED <<rvars, cogs>>
    /\ NoNotify
    /\ UNCHANGED TICKET_WEBHOOK

\* data/tickets.json is damaged (truncated, edited by hand): json.load raises
TicketFileCorrupted ==
    /\ ticket_file = "ok"
    /\ ticket_file' = "corrupt"
    /\ last' = NoMsg
    /\ UNCHANGED <<ticket_counter, active_tickets, closed_tickets, disk, channels,
                   sendPerm, chanSeq, hs, writable, cap, issued, live>>
    /\ UNCHANGED <<rvars, cogs>>
    /\ NoNotify
    /\ UNCHANGED TICKET_WEBHOOK

\* the data file stops being writable (disk full, permissions), or is
\* writable again
StoreBreaks ==
    /\ writable
    /\ writable' = FALSE
    /\ last' = NoMsg
    /\ UNCHANGED <<ticket_counter, active_tickets, closed_tickets, disk, ticket_file, channels,
                   sendPerm, chanSeq, hs, cap, issued, live>>
    /\ UNCHANGED <<rvars, cogs>>
    /\ NoNotify
    /\ UNCHANGED TICKET_WEBHOOK

StoreRepaired ==
    /\ ~writable
    /\ writable' = TRUE
    /\ last' = NoMsg
    /\ UNCHANGED <<ticket_counter, active_tickets, closed_tickets, disk, ticket_file, channels,
                   sendPerm, chanSeq, hs, cap, issued, live>>
    /\ UNCHANGED <<rvars, cogs>>
    /\ NoNotify
    /\ UNCHANGED TICKET_WEBHOOK

\* the event loop serves the ticket interactions
Serve ==
    \/ \E u \in Users : create_ticket(u)
    \/ \E u \in Users : process_ticket_modal(u)
    \/ \E r \in InFlight : create_ticket_channel(r)
    \/ \E r \in InFlight : create_ticket_panel(r)
    \/ \E u \in Clickers, t \in TicketIds : claim_ticket(u, t)
    \/ \E r \in InFlight : claim_ticket_notify(r)
    \/ \E u \in Clickers, t \in TicketIds : close_ticket(u, t)
    \/ \E r \in InFlight : close_ticket_perm(r)
    \/ \E u \in Clickers, t \in TicketIds : reopen_ticket(u, t)
    \/ \E r \in InFlight : reopen_ticket_perm(r)
    \/ \E u \in Clickers, t \in TicketIds : delete_ticket(u, t)
    \/ \E r \in InFlight : delete_ticket_remove(r)
    \/ \E r \in InFlight : delete_ticket_channel(r)
    \/ \E c \in 1..MaxChannels : ChannelDeleted(c)

Next ==
    \/ Serve
    \/ _load_ticket_data

\* handlers interleaving over a store that can always be written
Spec == Init /\ [][Next]_vars

\* one handler at a time over a store whose writes may fail
InitStore ==
    /\ InitTickets
    /\ InitCogs
    /\ cap = 1
    /\ TICKET_WEBHOOK = FALSE
    /\ initialRoles = {}
    /\ InitReactionRoles

NextStore ==
    \/ Next
    \/ StoreBreaks
    \/ StoreRepaired

SpecStore == InitStore /\ [][NextStore]_vars

InitHook ==
    /\ InitTickets
    /\ InitCogs
    /\ cap = NumHandlers
    /\ TICKET_WEBHOOK = TRUE
    /\ initialRoles = {}
    /\ InitReactionRoles

\* handlers interleaving while TICKET_WEBHOOK is set and the webhook may fail
SpecHook == InitHook /\ [][Next]_vars

(* ----------------------- tickets: the buttons -------------------------- *)

\* Strings are sequences of characters here, so that f-strings, startswith
\* and split are computed as Python computes them.

\* the texts of the custom ids
CLOSE_TICKET == <<"c", "l", "o", "s", "e", "_", "t", "i", "c", "k", "e", "t">>

CLAIM_TICKET == <<"c", "l", "a", "i", "m", "_", "t", "i", "c", "k", "e", "t">>

DELETE_TICKET == <<"d", "e", "l", "e", "t", "e", "_", "t", "i", "c", "k", "e", "t">>

REOPEN_TICKET == <<"r", "e", "o", "p", "e", "n", "_", "t", "i", "c", "k", "e", "t">>

CREATE_TICKET == <<"c", "r", "e", "a", "t", "e", "_", "t", "i", "c", "k", "e", "t">>

REACTION_SELECT == <<"r", "e", "a", "c", "t", "i", "o", "n", "_", "s", "e", "l", "e", "c", "t">>

TICKET_HYPHEN == <<"t", "i", "c", "k", "e", "t", "-">>

TICKET_COLON == <<"t", "i", "c", "k", "e", "t", ":">>

\* str(n) for n >= 0
RECURSIVE Decimal(_)
Decimal(n) ==
    LET digit == <<"0", "1", "2", "3", "4", "5", "6", "7", "8", "9">>[(n % 10) + 1]
    IN IF n < 10 THEN <<digit>> ELSE Append(Decimal(n \div 10), digit)

\* as ticket_id, with a colon in place of the hyphen
ticket_id_colon(n) == TICKET_COLON \o Decimal(n)

\* f"ticket-{ticket_number}"
ticket_id(n) == TICKET_HYPHEN \o Decimal(n)

\* f"{action}:{ticket_id}", the custom_id of the buttons of the panels
custom_id(action, n) == action \o <<":">> \o ticket_id(n)

\* s.startswith(p)
startswith(s, p) == Len(s) >= Len(p) /\ SubSeq(s, 1, Len(p)) = p

\* s.split(":")
RECURSIVE split(_)
split(s) ==
    IF \A i \in 1..Len(s) : s[i] # ":"
    THEN <<s>>
    ELSE LET i == CHOOSE j \in 1..Len(s) :
                      s[j] = ":" /\ \A k \in 1..(j - 1) : s[k] # ":"
         IN <<SubSeq(s, 1, i - 1)>> \o split(SubSeq(s, i + 1, Len(s)))

\* the key of the registry that the string s is, None when it is none
TicketKey(s) ==
    IF \E n \in TicketIds : ticket_id(n) = s
    THEN CHOOSE n \in TicketIds : ticket_id(n) = s
    ELSE None

\* the ids of the buttons the panels of create, close and reopen carry
Rendered ==
    {custom_id(a, n) : a \in {CLOSE_TICKET, CLAIM_TICKET, DELETE_TICKET, REOPEN_TICKET},
                       n \in TicketIds}

\* ids of other components: of "Create Ticket", of the reaction-role menu,
\* and strings that are near a ticket button's id without being one
Foreign ==
    {CREATE_TICKET, REACTION_SELECT, CLOSE_TICKET, <<"x">> \o custom_id(CLOSE_TICKET, 1),
     ticket_id(1)}

CustomIds == Rendered \cup Foreign

\* on_interaction with interaction.data["custom_id"] = cid, clicked by u
on_interaction(u, cid) ==
    IF startswith(cid, CLOSE_TICKET \o <<":">>)
    THEN close_ticket(u, TicketKey(split(cid)[2]))
    ELSE IF startswith(cid, CLAIM_TICKET \o <<":">>)
    THEN claim_ticket(u, TicketKey(split(cid)[2]))
    ELSE IF startswith(cid, DELETE_TICKET \o <<":">>)
    THEN delete_ticket(u, TicketKey(split(cid)[2]))
    ELSE IF startswith(cid, REOPEN_TICKET \o <<":">>)
    THEN reopen_ticket(u, TicketKey(split(cid)[2]))
    ELSE /\ last' = IF cid = CREATE_TICKET THEN Msg("create", 0, u, "form") ELSE NoMsg
         /\ UNCHANGED <<ticket_counter, active_tickets, closed_tickets, disk,
                        ticket_file, channels, sendPerm, chanSeq, hs, writable, cap,
                        issued, live>>
         /\ UNCHANGED <<rvars, cogs>>
         /\ NoNotify
         /\ UNCHANGED TICKET_WEBHOOK

NextButtons ==
    \/ \E u \in Users : process_ticket_modal(u)
    \/ \E r \in InFlight : create_ticket_channel(r)
    \/ \E r \in InFlight : create_ticket_panel(r)
    \/ \E u \in Clickers, cid \in CustomIds : on_interaction(u, cid)
    \/ \E r \in InFlight : claim_ticket_notify(r)
    \/ \E r \in InFlight : close_ticket_perm(r)
    \/ \E r \in InFlight : reopen_ticket_perm(r)
    \/ \E r \in InFlight : delete_ticket_remove(r)
    \/ \E r \in InFlight : delete_ticket_channel(r)

\* the tickets driven through the buttons of their panels, one handler at a
\* time
SpecButtons == InitStore /\ [][NextButtons]_vars

\* the members of the support staff who click the buttons in SpecStaff
Staff == {1, 2}

NextStaff ==
    \/ \E u \in Users : create_ticket(u)
    \/ \E r \in InFlight : create_ticket_channel(r)
    \/ \E r \in InFlight : create_ticket_panel(r)
    \/ \E u \in Staff, t \in TicketIds : claim_ticket(u, t)
    \/ \E r \in InFlight : claim_ticket_notify(r)
    \/ \E u \in Staff, t \in TicketIds : close_ticket(u, t)
    \/ \E r \in InFlight : close_ticket_perm(r)
    \/ \E u \in Staff, t \in TicketIds : reopen_ticket(u, t)
    \/ \E r \in InFlight : reopen_ticket_perm(r)

\* tickets created, claimed, closed and reopened by two members of the staff,
\* one handler at a time
SpecStaff == InitStore /\ [][NextStaff]_vars

\* a member of the guild who is not of the staff and opens tickets
Requesters == {3}

NextPublic ==
    \/ \E u \in Requesters : create_ticket(u)
    \/ \E r \in InFlight : create_ticket_channel(r)
    \/ \E r \in InFlight : create_ticket_panel(r)
    \/ \E u \in Requesters \cup Clickers, t \in TicketIds : claim_ticket(u, t)
    \/ \E r \in InFlight : claim_ticket_notify(r)
    \/ \E u \in Requesters \cup Clickers, t \in TicketIds : close_ticket(u, t)
    \/ \E r \in InFlight : close_ticket_perm(r)
    \/ \E u \in Requesters \cup Clickers, t \in TicketIds : reopen_ticket(u, t)
    \/ \E r \in InFlight : reopen_ticket_perm(r)

\* the panel of a ticket is in the ticket's channel, where its requester
\* reads and clicks as the staff does; one handler at a time
SpecPublic == InitStore /\ [][NextPublic]_vars

\* the ticket handlers interleaving in a process that is not started again
SpecServe == Init /\ [][Serve]_vars

\* every await of the handler in flight returns or raises in the end
Awaits ==
    /\ WF_vars(\E r \in InFlight : create_ticket_channel(r))
    /\ WF_vars(\E r \in InFlight : create_ticket_panel(r))
    /\ WF_vars(\E r \in InFlight : claim_ticket_notify(r))
    /\ WF_vars(\E r \in InFlight : close_ticket_perm(r))
    /\ WF_vars(\E r \in InFlight : reopen_ticket_perm(r))
    /\ WF_vars(\E r \in InFlight : delete_ticket_remove(r))
    /\ WF_vars(\E r \in InFlight : delete_ticket_channel(r))

\* a process that is not restarted, with one handler at a time, whose awaits
\* all end
SpecLive == InitStore /\ [][Serve]_vars /\ Awaits

(* ----------------------- reaction roles: views ------------------------ *)

\* a reaction-role handler in flight: a panel command suspended in
\* target_channel.send (pc "send") with the view it built and whether the
\* category dict it holds has been deleted from reaction_roles_data since, or
\* a click suspended in add_roles / remove_roles (pc "toggle")
RH(pc, op, cat, view, orphan, role, act) ==
    [pc |-> pc, op |-> op, cat |-> cat, view |-> view, orphan |-> orphan,
     role |-> role, act |-> act]

RInFlight == BagToSet(rh)

RFree == phase = "ready" /\ BagCardinality(rh) < cap

NoView == [kind |-> "none", controls |-> {}]

\* ReactionRoleView.__init__: one button per entry of roles, with the
\* custom_id "reaction_role:{emoji_key}:{role_id}", here the pair
ReactionRoleView(roles) ==
    [kind |-> "button", controls |-> {<<e, roles[e]>> : e \in DOMAIN roles}]

\* ReactionRoleSelectView / ReactionRoleSelect.__init__: one select with the
\* custom_id "reaction_select" and one option "{emoji_key}:{role_id}" per
\* entry whose role exists in the guild
ReactionRoleSelectView(roles) ==
    [kind |-> "menu",
     controls |-> {<<e, roles[e]>> : e \in {x \in DOMAIN roles : roles[x] \in guildRoles}}]

\* _save_reaction_roles_data: the file is overwritten, or the write raises
\* and the error is printed and swallowed
_save_reaction_roles_data(d) ==
    /\ rr_disk' = IF writable THEN d ELSE rr_disk
    /\ roles_file' = IF writable THEN "ok" ELSE roles_file

\* the categories _register_views builds a view for
Panelled(d) ==
    {c \in DOMAIN d : d[c].message_id # None /\ d[c].panel_type \in {"button", "menu"}}

\* the view store after the loop of _register_views over the document d
RegisterViews(d) ==
    [m \in {d[c].message_id : c \in Panelled(d)} |->
        LET c == CHOOSE x \in Panelled(d) : d[x].message_id = m
        IN IF d[c].panel_type = "button"
           THEN ReactionRoleView(d[c].roles)
           ELSE ReactionRoleSelectView(d[c].roles)]

\* The library finds the callback of a click on control c of message m in
\* the view store vs: the view registered for the message must have an item
\* with the component's custom_id.  Every option of a menu comes in under
\* the one custom_id "reaction_select".
Handled(vs, m, c) ==
    /\ m \in DOMAIN vs
    /\ vs[m].kind = messages[m].kind
    /\ messages[m].kind = "button" => c \in vs[m].controls

\* what a click on control c = <<emoji, role>> of message m does
ClickOutcome(vs, m, c) ==
    IF ~Handled(vs, m, c) THEN "unhandled"
    ELSE IF c[2] \notin guildRoles THEN "role_gone"
    ELSE IF c[2] \in memberRoles THEN "removed"
    ELSE "added"

(* ----------------------- reaction roles: commands --------------------- *)

\* as add_reaction_role, with the category dict made anew on every call
add_reaction_role_fresh(cat, role, emoji) ==
    /\ RFree
    /\ role \in guildRoles
    /\ LET data == [roles |-> EmptyMap, message_id |-> None,
                    channel_id |-> None, panel_type |-> "none"]
       IN reaction_roles_data' =
              Put(reaction_roles_data, cat,
                  [data EXCEPT !.roles = Put(data.roles, emoji, role)])
    /\ _save_reaction_roles_data(reaction_roles_data')
    /\ last' = Msg("rr_add", 0, role, "success")
    /\ UNCHANGED <<views, messages, msgSeq, guildRoles, memberRoles, rh, phase,
                   oldViews, initialRoles, flipped, overlapped>>
    /\ UNCHANGED <<treg, writable, cap, cogs>>

add_reaction_role(cat, role, emoji) ==
    /\ RFree
    /\ role \in guildRoles
    /\ LET data == IF cat \in DOMAIN reaction_roles_data
                   THEN reaction_roles_data[cat]
                   ELSE [roles |-> EmptyMap, message_id |-> None,
                         channel_id |-> None, panel_type |-> "none"]
       IN reaction_roles_data' =
              Put(reaction_roles_data, cat,
                  [data EXCEPT !.roles = Put(data.roles, emoji, role)])
    /\ _save_reaction_roles_data(reaction_roles_data')
    /\ last' = Msg("rr_add", 0, role, "success")
    /\ UNCHANGED <<views, messages, msgSeq, guildRoles, memberRoles, rh, phase,
                   oldViews, initialRoles, flipped, overlapped>>
    /\ UNCHANGED <<treg, writable, cap, cogs>>

\* as PanelBegin, without the guard on a category that holds no role
PanelBegin_any_roles(cat, o) ==
    /\ RFree
    /\ IF cat \notin DOMAIN reaction_roles_data
       THEN /\ last' = Msg(o, 0, 0, "rejected")
            /\ rh' = rh
       ELSE LET roles == reaction_roles_data[cat].roles
                view == IF o = "rr_button" THEN ReactionRoleView(roles)
                                           ELSE ReactionRoleSelectView(roles)
            IN /\ rh' = rh (+) SetToBag({RH("send", o, cat, view, FALSE, None, "none")})
               /\ last' = Msg(o, 0, 0, "progress")
    /\ UNCHANGED <<reaction_roles_data, rr_disk, roles_file, views, messages, msgSeq,
                   guildRoles, memberRoles, phase, oldViews, initialRoles,
                   flipped, overlapped>>
    /\ UNCHANGED <<treg, writable, cap, cogs>>

\* The first segment of button_panel / menu_panel (o tells which): the
\* guards, the view built from the roles as they are now, and "Creating
\* reaction role panel...", up to the await of target_channel.send.
PanelBegin(cat, o) ==
    /\ RFree
    /\ IF cat \notin DOMAIN reaction_roles_data
       THEN /\ last' = Msg(o, 0, 0, "rejected")
            /\ rh' = rh
       ELSE IF reaction_roles_data[cat].roles = EmptyMap
       THEN /\ last' = Msg(o, 0, 0, "rejected")
            /\ rh' = rh
       ELSE LET roles == reaction_roles_data[cat].roles
                view == IF o = "rr_button" THEN ReactionRoleView(roles)
                                           ELSE ReactionRoleSelectView(roles)
            IN /\ rh' = rh (+) SetToBag({RH("send", o, cat, view, FALSE, None, "none")})
               /\ last' = Msg(o, 0, 0, "progress")
    /\ UNCHANGED <<reaction_roles_data, rr_disk, roles_file, views, messages, msgSeq,
                   guildRoles, memberRoles, phase, oldViews, initialRoles,
                   flipped, overlapped>>
    /\ UNCHANGED <<treg, writable, cap, cogs>>

button_panel(cat) == PanelBegin(cat, "rr_button")

menu_panel(cat) == PanelBegin(cat, "rr_menu")

\* target_channel.send returns: the message exists with the components of
\* the view, the library stores the view under the message id, the handler
\* writes message_id, channel_id and panel_type into the category dict it
\* holds (which is no longer in reaction_roles_data when the category was
\* deleted meanwhile), saves and edits its response to "created
\* successfully".  Or send raises (no permission, a select without options)
\* and the command ends with the error.
PanelSend(r) ==
    /\ r.pc = "send"
    /\ \/ /\ msgSeq < MaxPanels
          /\ r.view.controls # {}
          /\ LET m == msgSeq + 1
             IN /\ msgSeq' = m
                /\ messages' = Put(messages, m, r.view)
                /\ views' = Put(views, m, r.view)
                /\ reaction_roles_data' =
                       IF r.orphan
                       THEN reaction_roles_data
                       ELSE [reaction_roles_data EXCEPT
                               ![r.cat].message_id = m,
                               ![r.cat].channel_id = PanelChannel,
                               ![r.cat].panel_type = r.view.kind]
                /\ _save_reaction_roles_data(reaction_roles_data')
                /\ last' = Msg(r.op, m, 0, "success")
          /\ rh' = rh (-) SetToBag({r})
       \/ /\ rh' = rh (-) SetToBag({r})
          /\ last' = NoMsg
          /\ UNCHANGED <<reaction_roles_data, rr_disk, roles_file, views, messages, msgSeq>>
    /\ UNCHANGED <<guildRoles, memberRoles, phase, oldViews, initialRoles,
                   flipped, overlapped>>
    /\ UNCHANGED <<treg, writable, cap, cogs>>

button_panel_send(r) == r.op = "rr_button" /\ PanelSend(r)

menu_panel_send(r) == r.op = "rr_menu" /\ PanelSend(r)

\* the handlers in flight after del reaction_roles_data[guild_id][cat]: a
\* panel command suspended on cat holds a dict that is in the registry no more
Orphan(cat, r) ==
    IF r.pc = "send" /\ r.cat = cat THEN [r EXCEPT !.orphan = TRUE] ELSE r

delete_reaction_role(cat) ==
    /\ RFree
    /\ IF cat \notin DOMAIN reaction_roles_data
       THEN /\ last' = Msg("rr_delete", 0, 0, "rejected")
            /\ UNCHANGED <<reaction_roles_data, rr_disk, roles_file, rh>>
       ELSE /\ reaction_roles_data' = Del(reaction_roles_data, cat)
            /\ _save_reaction_roles_data(reaction_roles_data')
            /\ rh' = BagOfAll(LAMBDA r : Orphan(cat, r), rh)
            /\ last' = Msg("rr_delete", 0, 0, "success")
    /\ UNCHANGED <<views, messages, msgSeq, guildRoles, memberRoles, phase,
                   oldViews, initialRoles, flipped, overlapped>>
    /\ UNCHANGED <<treg, writable, cap, cogs>>

(* ----------------------- reaction roles: clicks ----------------------- *)

\* as Toggle, with add_roles called whether the member has the role or not
Toggle_always_add(m, c) ==
    /\ RFree
    /\ m \in DOMAIN messages
    /\ c \in messages[m].controls
    /\ IF ~Handled(views, m, c)
       THEN /\ last' = Msg("click", m, c[2], "unhandled")
            /\ UNCHANGED <<rh, overlapped>>
       ELSE IF c[2] \notin guildRoles
       THEN /\ last' = Msg("click", m, c[2], "role_gone")
            /\ UNCHANGED <<rh, overlapped>>
       ELSE /\ rh' = rh (+) SetToBag({RH("toggle", "click", "", NoView, FALSE, c[2], "add")})
            /\ overlapped' = (overlapped \/ \E r \in RInFlight :
                                               r.pc = "toggle" /\ r.role = c[2])
            /\ last' = NoMsg
    /\ flipped' = IF overlapped' THEN {} ELSE flipped
    /\ UNCHANGED <<reaction_roles_data, rr_disk, roles_file, views, messages, msgSeq,
                   guildRoles, memberRoles, phase, oldViews, initialRoles>>
    /\ UNCHANGED <<treg, writable, cap, cogs>>

\* A click on control c of the panel message m (what handle_toggle is in the
\* two callbacks): the library looks the callback up; with none the
\* interaction fails.  The callback answers "Role not found" when the role is
\* gone, and otherwise reads member.roles and awaits remove_roles or
\* add_roles.
Toggle(m, c) ==
    /\ RFree
    /\ m \in DOMAIN messages
    /\ c \in messages[m].controls
    /\ IF ~Handled(views, m, c)
       THEN /\ last' = Msg("click", m, c[2], "unhandled")
            /\ UNCHANGED <<rh, overlapped>>
       ELSE IF c[2] \notin guildRoles
       THEN /\ last' = Msg("click", m, c[2], "role_gone")
            /\ UNCHANGED <<rh, overlapped>>
       ELSE /\ rh' = rh (+) SetToBag({RH("toggle", "click", "", NoView, FALSE, c[2],
                                        IF c[2] \in memberRoles THEN "remove" ELSE "add")})
            /\ overlapped' = (overlapped \/ \E r \in RInFlight :
                                               r.pc = "toggle" /\ r.role = c[2])
            /\ last' = NoMsg
    /\ flipped' = IF overlapped' THEN {} ELSE flipped
    /\ UNCHANGED <<reaction_roles_data, rr_disk, roles_file, views, messages, msgSeq,
                   guildRoles, memberRoles, phase, oldViews, initialRoles>>
    /\ UNCHANGED <<treg, writable, cap, cogs>>

\* ReactionRoleView.button_callback
button_callback(m, c) ==
    /\ m \in DOMAIN messages
    /\ messages[m].kind = "button"
    /\ Toggle(m, c)

\* ReactionRoleSelect.callback
callback(m, c) ==
    /\ m \in DOMAIN messages
    /\ messages[m].kind = "menu"
    /\ Toggle(m, c)

\* remove_roles / add_roles returns and "Removed role" / "Added role" is
\* sent; the call raises when the role was deleted meanwhile
ToggleDone(r) ==
    /\ r.pc = "toggle"
    /\ rh' = rh (-) SetToBag({r})
    /\ IF r.role \in guildRoles
       THEN /\ memberRoles' = IF r.act = "add" THEN memberRoles \cup {r.role}
                                               ELSE memberRoles \ {r.role}
            /\ flipped' = IF overlapped THEN {}
                           ELSE IF r.role \in flipped THEN flipped \ {r.role}
                           ELSE flipped \cup {r.role}
            /\ last' = Msg("click", 0, r.role, IF r.act = "add" THEN "added" ELSE "removed")
       ELSE /\ UNCHANGED <<memberRoles, flipped>>
            /\ last' = NoMsg
    /\ UNCHANGED <<reaction_roles_data, rr_disk, roles_file, views, messages, msgSeq,
                   guildRoles, phase, oldViews, initialRoles, overlapped>>
    /\ UNCHANGED <<treg, writable, cap, cogs>>

(* ----------------------- reaction roles: environment ------------------ *)

\* a moderator deletes a role of the guild
RoleDeleted(role) ==
    /\ phase = "ready"
    /\ role \in guildRoles
    /\ guildRoles' = guildRoles \ {role}
    /\ memberRoles' = memberRoles \ {role}
    /\ last' = NoMsg
    /\ UNCHANGED <<reaction_roles_data, rr_disk, roles_file, views, messages, msgSeq, rh,
                   phase, oldViews, initialRoles, flipped, overlapped>>
    /\ UNCHANGED <<treg, writable, cap, cogs>>

\* what json.load gives for data/reaction_roles.json, or {} when the file is
\* not there or json.load raises
LoadedRoles == IF roles_file = "ok" THEN rr_disk ELSE EmptyMap

\* _load_reaction_roles_data, run by ReactionRoles.__init__ when the process
\* starts again: the handlers in flight and the view store are gone
_load_reaction_roles_data ==
    /\ phase = "ready"
    /\ reaction_roles_data' = LoadedRoles
    /\ views' = EmptyMap
    /\ oldViews' = views
    /\ rh' = EmptyBag
    /\ phase' = "starting"
    /\ last' = Msg("restart", 0, 0, "none")
    /\ UNCHANGED <<rr_disk, roles_file, messages, msgSeq, guildRoles, memberRoles,
                   initialRoles, flipped, overlapped>>
    /\ UNCHANGED <<treg, writable, cap, cogs>>

\* data/reaction_roles.json is deleted under the running process
RolesFileLost ==
    /\ roles_file = "ok"
    /\ roles_file' = "missing"
    /\ last' = NoMsg
    /\ UNCHANGED <<reaction_roles_data, rr_disk, views, messages, msgSeq,
                   guildRoles, memberRoles, rh, phase, oldViews, initialRoles,
                   flipped, overlapped>>
    /\ UNCHANGED <<treg, writable, cap, cogs>>

\* data/reaction_roles.json is damaged: json.load raises
RolesFileCorrupted ==
    /\ roles_file = "ok"
    /\ roles_file' = "corrupt"
    /\ last' = NoMsg
    /\ UNCHANGED <<reaction_roles_data, rr_disk, views, messages, msgSeq,
                   guildRoles, memberRoles, rh, phase, oldViews, initialRoles,
                   flipped, overlapped>>
    /\ UNCHANGED <<treg, writable, cap, cogs>>

\* _register_views, once the bot is ready
_register_views ==
    /\ phase = "starting"
    /\ views' = RegisterViews(reaction_roles_data)
    /\ phase' = "ready"
    /\ oldViews' = EmptyMap
    /\ last' = Msg("register", 0, 0, "none")
    /\ UNCHANGED <<reaction_roles_data, rr_disk, roles_file, messages, msgSeq, guildRoles,
                   memberRoles, rh, initialRoles, flipped, overlapped>>
    /\ UNCHANGED <<treg, writable, cap, cogs>>

Controls == Emojis \X Roles

NextRR ==
    \/ \E cat \in Categories, role \in Roles, emoji \in Emojis :
          add_reaction_role(cat, role, emoji)
    \/ \E cat \in Categories : button_panel(cat)
    \/ \E cat \in Categories : menu_panel(cat)
    \/ \E r \in RInFlight : button_panel_send(r)
    \/ \E r \in RInFlight : menu_panel_send(r)
    \/ \E cat \in Categories : delete_reaction_role(cat)
    \/ \E m \in 1..MaxPanels, c \in Controls : button_callback(m, c)
    \/ \E m \in 1..MaxPanels, c \in Controls : callback(m, c)
    \/ \E r \in RInFlight : ToggleDone(r)
    \/ \E role \in Roles : RoleDeleted(role)
    \/ _load_reaction_roles_data
    \/ _register_views

InitRR ==
    /\ InitTickets
    /\ InitCogs
    /\ cap = NumHandlers
    /\ TICKET_WEBHOOK = FALSE
    /\ initialRoles \in {{}, {1}}
    /\ InitReactionRoles

\* the reaction-role commands, the clicks on the panels and restarts,
\* interleaving over a store that can always be written
SpecRR == InitRR /\ [][NextRR]_vars

\* a category as add_reaction_role creates it, before its first role is set
BareCategory ==
    [roles |-> EmptyMap, message_id |-> None, channel_id |-> None,
     panel_type |-> "none"]

\* the process starts on a document that is empty or that holds a category
\* without roles, and serves one reaction-role handler at a time
InitRRDocs ==
    /\ InitTickets
    /\ InitCogs
    /\ cap = 1
    /\ TICKET_WEBHOOK = FALSE
    /\ initialRoles = {}
    /\ reaction_roles_data \in {EmptyMap} \cup {Put(EmptyMap, cat, BareCategory) : cat \in Categories}
    /\ rr_disk = reaction_roles_data
    /\ roles_file = IF rr_disk = EmptyMap THEN "missing" ELSE "ok"
    /\ views = EmptyMap
    /\ messages = EmptyMap
    /\ msgSeq = 0
    /\ guildRoles = Roles
    /\ memberRoles = initialRoles
    /\ rh = EmptyBag
    /\ phase = "ready"
    /\ oldViews = EmptyMap
    /\ flipped = {}
    /\ overlapped = FALSE

SpecRRDocs == InitRRDocs /\ [][NextRR]_vars

\* the category and emoji arguments of the commands of SpecAdd
AddCategories == Categories \cup {"games"}

AddEmojis == Emojis \cup {"blue"}

NextAdd ==
    \/ \E cat \in AddCategories, role \in Roles, emoji \in AddEmojis :
          add_reaction_role(cat, role, emoji)
    \/ \E cat \in AddCategories : button_panel(cat)
    \/ \E r \in RInFlight : button_panel_send(r)
    \/ \E cat \in AddCategories : delete_reaction_role(cat)

\* the commands that write the registry, one handler at a time, over two
\* categories and two emojis
SpecAdd == InitStore /\ [][NextAdd]_vars

NextFiles ==
    \/ \E u \in Users : create_ticket(u)
    \/ \E r \in InFlight : create_ticket_channel(r)
    \/ \E r \in InFlight : create_ticket_panel(r)
    \/ \E cat \in Categories, role \in Roles, emoji \in Emojis :
          add_reaction_role(cat, role, emoji)
    \/ TicketFileLost
    \/ TicketFileCorrupted
    \/ RolesFileLost
    \/ RolesFileCorrupted
    \/ StoreBreaks
    \/ StoreRepaired
    \/ _load_ticket_data
    \/ _load_reaction_roles_data
    \/ _register_views

\* documents are built, one handler at a time, the data files are lost or
\* damaged under the process, and the process is started again
SpecFiles == InitStore /\ [][NextFiles]_vars

(* ======================= the claims: tickets =========================== *)

Reg == <<ticket_counter, active_tickets, closed_tickets>>

\* this step is the restart of the process
Restarted == last'.op = "restart"

\* this step ran the first segment of op on ticket t and its guards passed:
\* one more handler of op on t is in flight
Began(op, t) ==
    /\ BagCardinality(hs') > BagCardinality(hs)
    /\ \E r \in BagToSet(hs') :
         r.op = op /\ r.t = t /\ CopiesIn(r, hs') > CopiesIn(r, hs)

\* this step ran op on ticket t and answered with a rejection
Rejected(op, t) ==
    last'.op = op /\ last'.t = t /\ last'.kind = "rejected"

\* this step resumed a handler of op on ticket t
Resumed(op, t) ==
    /\ ~Restarted
    /\ \E r \in InFlight :
         r.op = op /\ r.t = t /\ CopiesIn(r, hs') < CopiesIn(r, hs)

\* this step is a step of op on ticket t
By(op, t) == Began(op, t) \/ Rejected(op, t) \/ Resumed(op, t)

\* C1: no two tickets in active_tickets have the same user_id.
C1_OneActivePerUser ==
    \A t1, t2 \in DOMAIN active_tickets :
        t1 # t2 => active_tickets[t1].user_id # active_tickets[t2].user_id

\* C2: a step of close changes the registry only when the ticket is in
\* active_tickets, a step of reopen or delete only when it is in
\* closed_tickets; a close that changes the registry leaves the ticket in
\* closed_tickets only, and a close on a ticket that is closed already is
\* rejected, leaves the registry as it is and the ticket closed.
C2_StateMachine ==
    [][\A t \in TicketIds :
         /\ (By("close", t) /\ Reg' # Reg) =>
                /\ t \in DOMAIN active_tickets
                /\ t \in DOMAIN closed_tickets' \ DOMAIN active_tickets'
         /\ (By("reopen", t) /\ Reg' # Reg) => t \in DOMAIN closed_tickets
         /\ (By("delete", t) /\ Reg' # Reg) => t \in DOMAIN closed_tickets
         /\ ((Began("close", t) \/ Rejected("close", t)) /\ t \in DOMAIN closed_tickets) =>
                /\ Rejected("close", t)
                /\ hs' = hs
                /\ Reg' = Reg
      ]_vars

\* a second close was rejected while the ticket stays closed
C2_Witness ==
    /\ last = Msg("close", 1, 0, "rejected")
    /\ 1 \in DOMAIN closed_tickets
    /\ closed_tickets[1].closed_by # None

\* every id that was inserted and not deleted is a key of exactly one map,
\* and the maps hold no other key
Partition ==
    /\ DOMAIN active_tickets \cap DOMAIN closed_tickets = {}
    /\ DOMAIN active_tickets \cup DOMAIN closed_tickets = live

\* close (reopen) of t moves the record of t and touches nothing else
Moved(from, to, t) ==
    /\ t \in DOMAIN from
    /\ DOMAIN from' = DOMAIN from \ {t}
    /\ DOMAIN to' = DOMAIN to \cup {t}
    /\ \A x \in DOMAIN from' : from'[x] = from[x]
    /\ \A x \in DOMAIN to : to'[x] = to[x]
    /\ to'[t].user_id = from[t].user_id
    /\ to'[t].channel_id = from[t].channel_id
    /\ ticket_counter' = ticket_counter

\* C3: at every suspension point each id created and not deleted is a key of
\* exactly one of active_tickets and closed_tickets, and close and reopen
\* only move the record from one map to the other.
C3_ExactlyOneMap ==
    /\ Partition
    /\ [][/\ Partition'
          /\ \A t \in TicketIds :
               /\ (By("close", t) /\ Reg' # Reg) =>
                      Moved(active_tickets, closed_tickets, t)
               /\ (By("reopen", t) /\ Reg' # Reg) =>
                      Moved(closed_tickets, active_tickets, t)
         ]_vars

\* a reopened ticket is back in active_tickets while a handler is suspended
C3_Witness ==
    /\ hs # EmptyBag
    /\ \E t \in DOMAIN active_tickets : active_tickets[t].reopened_by # None
    /\ closed_tickets # EmptyMap

Range(q) == {q[i] : i \in 1..Len(q)}

\* C4: the numbers given to tickets are 1, 2, ... with none skipped and none
\* given twice, and ticket_counter never falls below a number given: once
\* no creation is in flight the numbers given are exactly 1..ticket_counter.
C4_GaplessIds ==
    /\ \A i, j \in 1..Len(issued) : i # j => issued[i] # issued[j]
    /\ \A i \in 1..Len(issued) : issued[i] <= ticket_counter
    /\ (\A r \in InFlight : r.pc # "channel") => Range(issued) = 1..ticket_counter

\* C5: when the guard of create, claim, close, reopen or delete fails, the
\* requester gets a rejection, no handler goes on, and ticket_counter,
\* active_tickets and closed_tickets are unchanged, as is the file.
C5_RejectedNoChange ==
    [][/\ \A u \in Users :
            ( /\ HasActiveTicket(u)
              /\ \/ \E o \in {"create", "modal"} : last' = Msg(o, 0, u, "rejected")
                 \/ \E r \in BagToSet(hs') :
                       r.pc = "channel" /\ r.u = u /\ CopiesIn(r, hs') > CopiesIn(r, hs) )
            => (last'.kind = "rejected" /\ hs' = hs /\ Reg' = Reg /\ disk' = disk)
       /\ \A t \in TicketIds :
            /\ \A op \in {"claim", "close"} :
                 ((Began(op, t) \/ Rejected(op, t)) /\ t \notin DOMAIN active_tickets)
                 => (Rejected(op, t) /\ hs' = hs /\ Reg' = Reg /\ disk' = disk)
            /\ \A op \in {"reopen", "delete"} :
                 ((Began(op, t) \/ Rejected(op, t)) /\ t \notin DOMAIN closed_tickets)
                 => (Rejected(op, t) /\ hs' = hs /\ Reg' = Reg /\ disk' = disk)
       /\ last'.kind = "rejected" => (hs' = hs /\ Reg' = Reg /\ disk' = disk)
      ]_vars

\* the second create of a user was rejected and the counter is still 1
C5_Witness ==
    /\ last.kind = "rejected"
    /\ last.op \in {"create", "modal"}
    /\ HasActiveTicket(last.u)
    /\ ticket_counter = 1

\* the change that op makes to ticket t is in the document d
Persisted(op, t, d) ==
    CASE op \in {"create", "modal"} -> t \in DOMAIN d.active
      [] op = "claim" -> t \in DOMAIN d.active /\ d.active[t].claimed_by # None
      [] op = "delete" -> t \notin DOMAIN d.closed
      [] OTHER -> TRUE

\* C6: when an operation sends its first success message, the document it
\* changed is in the file already (close and reopen: their save is behind
\* them and did not fail).
C6_PersistBeforeSuccess ==
    [][last'.kind = "success" =>
          /\ Persisted(last'.op, last'.t, disk')
          /\ \A r \in InFlight :
                (r.op = last'.op /\ r.t = last'.t /\ r.pc = "perm") => ~r.saveFailed
      ]_vars

\* C7: no success message is sent for an operation whose write of the
\* store failed.
C7_AbortOnStoreUnwritable ==
    [][last'.kind = "success" =>
          ~\E r \in InFlight \cup BagToSet(hs') :
               r.op = last'.op /\ r.t = last'.t /\ r.saveFailed
      ]_vars

\* C8: when an operation whose write failed has ended, the registry in
\* memory equals the document in the file.
C8_MemoryEqualsStore ==
    [][\A r \in InFlight :
          (r.saveFailed /\ ~Restarted /\ hs' = hs (-) SetToBag({r}))
          => Doc(ticket_counter', active_tickets', closed_tickets') = disk'
      ]_vars

\* a handler of op on ticket t is in flight and has not answered yet
Unanswered(op, t) ==
    \E r \in InFlight : r.pc \in {"channel", "perm"} /\ r.op = op /\ r.t = t

\* the last message is the answer of op on ticket t
Answered(op, t) ==
    last.op = op /\ last.t = t /\ last.kind \in {"success", "error"}

\* C11: every ticket interaction is answered: a handler that is suspended
\* before its response (create at create_text_channel, close and reopen at
\* set_permissions) sends a success or an error message in the end, and
\* every other step that takes up an interaction (a failed guard, claim,
\* delete) sends its message in that step.
C11_EveryInteractionAnswered ==
    /\ \A op \in {"create", "modal", "close", "reopen"} : \A t \in TicketIds :
          Unanswered(op, t) ~> Answered(op, t)
    /\ [][\A r \in BagToSet(hs') :
               (CopiesIn(r, hs') > CopiesIn(r, hs) /\ r.pc \in {"notify", "remove"})
               => (last'.op = r.op /\ last'.t = r.t /\ last'.kind = "success")
         ]_vars

\* close was answered with the error of set_permissions after the ticket
\* had been moved to closed_tickets
C11_Witness ==
    /\ last.op = "close"
    /\ last.kind = "error"
    /\ last.t \in DOMAIN closed_tickets

\* C12: a step that made a webhook call does the same whether the call was
\* sent or failed: delete removes the record and saves, every other
\* operation leaves the registry and the file as its earlier segments made
\* them, close and reopen send their success message, and the only error
\* message of such a step is that of a panel whose channel is gone.
C12_WebhookBestEffort ==
    [][webhook' \in {"sent", "failed"} =>
          /\ \A t \in TicketIds :
                /\ (Resumed("delete", t) /\ t \in DOMAIN closed_tickets) =>
                       /\ closed_tickets' = Del(closed_tickets, t)
                       /\ disk' = Doc(ticket_counter, active_tickets, closed_tickets')
                       /\ active_tickets' = active_tickets
                /\ (Resumed("delete", t) /\ t \notin DOMAIN closed_tickets) =>
                       (Reg' = Reg /\ disk' = disk)
                /\ \A op \in {"create", "modal", "claim", "close", "reopen"} :
                       Resumed(op, t) => (Reg' = Reg /\ disk' = disk)
                /\ \A op \in {"close", "reopen"} :
                       Resumed(op, t) => last' = Msg(op, t, 0, "success")
          /\ last'.kind = "error" =>
                \E r \in InFlight : r.pc = "panel" /\ r.chan \notin channels
      ]_vars

\* the webhook call of a delete failed and the record is gone all the same
C12_Witness ==
    /\ webhook = "failed"
    /\ last = NoMsg
    /\ \E r \in InFlight : r.pc = "sleep" /\ r.t \notin live
    /\ \A t \in DOMAIN disk.closed : \A r \in InFlight : r.t # t

\* this step ran the first segment of op on ticket t
Clicked(op, t) == Began(op, t) \/ Rejected(op, t)

\* C13: when the channel of a ticket is gone, close and reopen still move
\* the record and delete still removes it, and the permissions and the
\* channels are left alone.
C13_ChannelSoftFail ==
    [][\A t \in TicketIds :
          /\ ( /\ Clicked("close", t)
               /\ t \in DOMAIN active_tickets
               /\ active_tickets[t].channel_id \notin channels )
             => (Moved(active_tickets, closed_tickets, t) /\ sendPerm' = sendPerm)
          /\ ( /\ Clicked("reopen", t)
               /\ t \in DOMAIN closed_tickets
               /\ closed_tickets[t].channel_id \notin channels )
             => (Moved(closed_tickets, active_tickets, t) /\ sendPerm' = sendPerm)
          /\ ( /\ Resumed("delete", t)
               /\ t \in DOMAIN closed_tickets
               /\ closed_tickets[t].channel_id \notin channels
               /\ \E r \in InFlight : r.pc = "remove" /\ r.t = t /\ r.chan = None )
             => ( /\ t \notin DOMAIN closed_tickets'
                  /\ t \notin DOMAIN active_tickets'
                  /\ channels' = channels
                  /\ hs' # hs )
      ]_vars

\* C17: a start of the process on a data file that is missing or that
\* json.load cannot parse goes through and gives the default document:
\* counter 0 with empty maps for the tickets, {} for the reaction roles.
C17_LoadDefaults ==
    [][/\ (Restarted /\ phase' = phase /\ ticket_file \in {"missing", "corrupt"}) =>
              (/\ ticket_counter' = 0
               /\ active_tickets' = EmptyMap
               /\ closed_tickets' = EmptyMap)
       /\ (phase = "ready" /\ phase' = "starting"
              /\ roles_file \in {"missing", "corrupt"}) =>
              (reaction_roles_data' = EmptyMap)
      ]_vars

\* the process was started on a damaged data/tickets.json that held a
\* ticket, and on a damaged data/reaction_roles.json that held a category
C17_Witness ==
    /\ last.op = "restart"
    /\ ticket_file = "corrupt"
    /\ disk.active # EmptyMap
    /\ active_tickets = EmptyMap
    /\ roles_file = "corrupt"
    /\ rr_disk # EmptyMap
    /\ reaction_roles_data = EmptyMap

\* the record of ticket t, in whichever map it is
Record(t) == IF t \in DOMAIN active_tickets THEN active_tickets[t] ELSE closed_tickets[t]

\* C18: with no ticket handler in flight, the requester of every ticket
\* whose channel exists may send in it exactly when the ticket is in
\* active_tickets.
C18_SendPermissionFollowsState ==
    hs = EmptyBag =>
        \A t \in DOMAIN active_tickets \cup DOMAIN closed_tickets :
            Record(t).channel_id \in channels =>
                (Record(t).channel_id \in sendPerm <=> t \in DOMAIN active_tickets)

\* this step resumes the delete handler r after its response: the del, the
\* save, and the sleep before channel.delete
DeleteResumed(r) ==
    /\ ~Restarted
    /\ r.op = "delete"
    /\ r.pc = "remove"
    /\ CopiesIn(r, hs') < CopiesIn(r, hs)

\* C19: a delete whose guard passed takes the record out of closed_tickets
\* and out of the file, and when the ticket's channel is there it goes on to
\* delete it after the delay; when the channel was missing it ends there.
C19_DeleteRemovesThenDeletesChannel ==
    [][\A r \in InFlight :
          DeleteResumed(r) =>
             /\ r.t \notin DOMAIN closed_tickets'
             /\ r.t \notin DOMAIN disk'.closed
             /\ (r.chan # None /\ r.chan \in channels) =>
                   \E d \in BagToSet(hs') :
                       d.op = "delete" /\ d.pc = "sleep" /\ d.chan = r.chan
             /\ r.chan = None => BagCardinality(hs') < BagCardinality(hs)]_vars

\* the same in a process that serves one handler at a time: the record goes
\* first and the channel follows (holds)
DeleteRemovesWhenAlone ==
    /\ C19_DeleteRemovesThenDeletesChannel
    /\ \A c \in 1..MaxChannels :
          (\E r \in InFlight : r.op = "delete" /\ r.chan = c) ~> (c \notin channels)
    /\ [](\A r \in InFlight : r.pc = "sleep" =>
             (r.t \notin DOMAIN closed_tickets /\ r.t \notin DOMAIN disk.closed))

\* delete has taken the record out and waits to delete the channel
DeletePending ==
    \E r \in InFlight :
        /\ r.pc = "sleep"
        /\ r.chan \in channels
        /\ r.t \notin DOMAIN closed_tickets
        /\ r.t \notin DOMAIN disk.closed

(* ==================== the claims: reaction roles ======================= *)

\* this step ran the first segment of reactionrole-button or reactionrole-menu
PanelCommand ==
    /\ last'.op \in {"rr_button", "rr_menu"}
    /\ last'.kind \in {"rejected", "progress"}

\* C14: reactionrole-button and reactionrole-menu on a category that is not
\* in the registry, or that holds no role, answer with the rejection, start
\* no send of a panel, and leave the registry and the file as they were.
\* (Categories holds one name, so the command's category is that one.)
C14_PanelRejected ==
    [][(/\ PanelCommand
        /\ \A cat \in Categories :
               \/ cat \notin DOMAIN reaction_roles_data
               \/ reaction_roles_data[cat].roles = EmptyMap)
       => (/\ last'.kind = "rejected"
           /\ rh' = rh
           /\ messages' = messages
           /\ msgSeq' = msgSeq
           /\ views' = views
           /\ reaction_roles_data' = reaction_roles_data
           /\ rr_disk' = rr_disk
           /\ roles_file' = roles_file)]_vars

\* a panel command was rejected on a category that is there without roles
C14_Witness ==
    /\ last.op \in {"rr_button", "rr_menu"}
    /\ last.kind = "rejected"
    /\ \E cat \in DOMAIN reaction_roles_data :
          reaction_roles_data[cat].roles = EmptyMap
    /\ rr_disk = reaction_roles_data
    /\ messages = EmptyMap

Registered == phase = "starting" /\ phase' = "ready"

\* C10: once _register_views has run after a restart, a click on
\* any control of any panel message sent before the restart has the outcome
\* it would have had in the process that was restarted.
C10_SameAfterRestart ==
    [][Registered =>
          \A m \in DOMAIN messages : \A c \in messages[m].controls :
              ClickOutcome(views', m, c) = ClickOutcome(oldViews, m, c)
      ]_vars

\* control c of a panel is an entry of the roles of the category record d
Configured(d, c) == c[1] \in DOMAIN d.roles /\ d.roles[c[1]] = c[2]

\* the message that the persisted record d names as the panel of its category
PersistedPanel(d) ==
    IF d.message_id # None /\ d.panel_type \in {"button", "menu"}
    THEN {d.message_id}
    ELSE {}

\* What a restart does keep: once _register_views has run, a click on the
\* panel message that the file names as the panel of a category, on a
\* control that is still an entry of that category's roles, reaches the
\* toggle callback, and has the outcome it would have had in the process
\* that was restarted whenever that process still handled it.
PersistedPanelAfterRestart ==
    [][Registered =>
          \A cat \in DOMAIN rr_disk : \A m \in PersistedPanel(rr_disk[cat]) :
              \A c \in messages[m].controls :
                  Configured(rr_disk[cat], c) =>
                      /\ Handled(views', m, c)
                      /\ Handled(oldViews, m, c) =>
                             ClickOutcome(views', m, c) = ClickOutcome(oldViews, m, c)
      ]_vars

\* _register_views has just run and a click on the persisted panel of a
\* category is handled
PersistedPanelClicked ==
    /\ last.op = "register"
    /\ \E cat \in DOMAIN rr_disk : \E m \in PersistedPanel(rr_disk[cat]) :
          \E c \in messages[m].controls :
              /\ Configured(rr_disk[cat], c)
              /\ ClickOutcome(views, m, c) \in {"added", "removed"}

\* the category cat as add_reaction_role finds it, or as it creates it
Category(cat) ==
    IF cat \in DOMAIN reaction_roles_data THEN reaction_roles_data[cat]
    ELSE BareCategory

\* C15: reactionrole-add creates the category when it is absent and sets
\* roles[emoji] to the role; when the entry is already that role the registry
\* stays as it is; every other entry of the category, its panel fields and
\* every other category are left alone.
C15_AddRoleUpsert ==
    [][\A cat \in AddCategories, role \in Roles, emoji \in AddEmojis :
          add_reaction_role(cat, role, emoji) =>
             /\ DOMAIN reaction_roles_data' = DOMAIN reaction_roles_data \cup {cat}
             /\ \A c \in DOMAIN reaction_roles_data \ {cat} :
                    reaction_roles_data'[c] = reaction_roles_data[c]
             /\ DOMAIN reaction_roles_data'[cat].roles =
                    DOMAIN Category(cat).roles \cup {emoji}
             /\ reaction_roles_data'[cat].roles[emoji] = role
             /\ \A e \in DOMAIN Category(cat).roles \ {emoji} :
                    reaction_roles_data'[cat].roles[e] = Category(cat).roles[e]
             /\ reaction_roles_data'[cat].message_id = Category(cat).message_id
             /\ reaction_roles_data'[cat].channel_id = Category(cat).channel_id
             /\ reaction_roles_data'[cat].panel_type = Category(cat).panel_type
             /\ (/\ emoji \in DOMAIN Category(cat).roles
                 /\ Category(cat).roles[emoji] = role)
                => reaction_roles_data' = reaction_roles_data]_vars

\* reactionrole-add has just overwritten one entry of a category that has a
\* panel and another entry, next to another category
C15_Witness ==
    /\ last.op = "rr_add"
    /\ \E cat \in DOMAIN reaction_roles_data :
          /\ DOMAIN reaction_roles_data[cat].roles = AddEmojis
          /\ reaction_roles_data[cat].message_id # None
          /\ \E e \in AddEmojis :
                /\ reaction_roles_data[cat].roles[e] = last.u
                /\ \E m \in DOMAIN messages :
                      \E c \in messages[m].controls : c[1] = e /\ c[2] # last.u
    /\ DOMAIN reaction_roles_data = AddCategories

\* this step is a click on a control of panel message m whose role is gone
ClickedGone(m) ==
    /\ last'.op = "click"
    /\ last'.t = m
    /\ last'.u \notin guildRoles

\* C16: a click on a control, button or option, whose role is no longer in
\* the guild is answered with "Role not found. It may have been deleted."
\* and changes no member's roles.
C16_RoleGoneRejected ==
    [][\A m \in DOMAIN messages :
          ClickedGone(m) => (last'.kind = "role_gone" /\ memberRoles' = memberRoles)]_vars

\* the same for the clicks that reach a callback: holds
RoleGoneRejectedWhenHandled ==
    [][\A m \in DOMAIN messages :
          (ClickedGone(m) /\ \E c \in messages[m].controls :
                                c[2] = last'.u /\ Handled(views, m, c))
          => (last'.kind = "role_gone" /\ memberRoles' = memberRoles)]_vars

\* a click for a deleted role was answered with "Role not found"
RoleGoneClicked ==
    /\ last.op = "click"
    /\ last.kind = "role_gone"
    /\ last.u \notin guildRoles

\* this step ends the panel command r with "Reaction role panel created
\* successfully!"
PanelReported(r) ==
    /\ r.pc = "send"
    /\ CopiesIn(r, rh') < CopiesIn(r, rh)
    /\ last'.op = r.op
    /\ last'.kind = "success"

\* C20: when reactionrole-button or reactionrole-menu reports the panel as
\* created, the file holds the category with the id of the message just
\* sent, the target channel and the kind of the panel.
C20_ReportedPanelPersisted ==
    [][\A r \in RInFlight :
          PanelReported(r) =>
             /\ r.cat \in DOMAIN rr_disk'
             /\ rr_disk'[r.cat].message_id = last'.t
             /\ rr_disk'[r.cat].channel_id = PanelChannel
             /\ rr_disk'[r.cat].panel_type = r.view.kind]_vars

\* the same for the panel commands during which the category was not
\* deleted: holds
ReportedPanelPersistedUnlessDeleted ==
    [][\A r \in RInFlight :
          (PanelReported(r) /\ ~r.orphan) =>
             /\ r.cat \in DOMAIN rr_disk'
             /\ rr_disk'[r.cat].message_id = last'.t
             /\ rr_disk'[r.cat].channel_id = PanelChannel
             /\ rr_disk'[r.cat].panel_type = r.view.kind]_vars

(* ==================== the claims: tickets, the record ================== *)

\* the fields of a ticket record that claim does not write
Unclaimed(rec) == [rec EXCEPT !.claimed_by = None, !.claimed_at = "unset"]

\* C21: claim on a ticket in active_tickets answers with the "claimed"
\* panel whether the ticket is claimed already or not, sets claimed_by to the
\* member who clicked, leaves the ticket in active_tickets with status open
\* and changes nothing else in the registry; close on a claimed ticket whose
\* channel is there moves it to closed_tickets.
C21_ClaimLastWins ==
    [][\A u \in Staff, t \in TicketIds :
          /\ (claim_ticket(u, t) /\ t \in DOMAIN active_tickets) =>
                /\ last' = Msg("claim", t, 0, "success")
                /\ DOMAIN active_tickets' = DOMAIN active_tickets
                /\ active_tickets'[t].claimed_by = u
                /\ active_tickets'[t].claimed_at = "set"
                /\ active_tickets'[t].status = "open"
                /\ Unclaimed(active_tickets'[t]) = Unclaimed(active_tickets[t])
                /\ \A x \in DOMAIN active_tickets \ {t} :
                       active_tickets'[x] = active_tickets[x]
                /\ closed_tickets' = closed_tickets
                /\ ticket_counter' = ticket_counter
          /\ (/\ close_ticket(u, t)
              /\ t \in DOMAIN active_tickets
              /\ active_tickets[t].claimed_by # None
              /\ active_tickets[t].channel_id \in channels) =>
                /\ t \in DOMAIN closed_tickets'
                /\ t \notin DOMAIN active_tickets'
                /\ closed_tickets'[t].claimed_by = active_tickets[t].claimed_by
      ]_vars

\* a ticket that one member closed was reopened and has just been claimed by
\* the other
C21_Witness ==
    /\ last.op = "claim"
    /\ last.kind = "success"
    /\ last.t \in DOMAIN active_tickets
    /\ active_tickets[last.t].claimed_by = 2
    /\ active_tickets[last.t].closed_by = 1
    /\ active_tickets[last.t].status = "open"

\* channel c exists, no record of the registry names it and no handler in
\* flight holds it
Unowned(c) ==
    /\ c \in channels
    /\ \A t \in DOMAIN active_tickets : active_tickets[t].channel_id # c
    /\ \A t \in DOMAIN closed_tickets : closed_tickets[t].channel_id # c
    /\ \A r \in InFlight : r.chan # c

\* C22: a restart while a delete sleeps before channel.delete loads a
\* registry that holds the ticket in neither map, and from then on the
\* ticket's channel belongs to no record and no handler, stays so, and goes
\* only when somebody else deletes it.
C22_RestartLosesChannelDeletion ==
    [][/\ \A r \in InFlight :
             (Restarted /\ r.pc = "sleep") =>
                /\ r.t \notin DOMAIN active_tickets' \cup DOMAIN closed_tickets'
                /\ r.chan \in channels => Unowned(r.chan)'
       /\ \A c \in 1..MaxChannels :
             Unowned(c) => /\ c \in channels' => Unowned(c)'
                           /\ c \notin channels' => hs' = hs
      ]_vars

\* the process was started again while a delete slept: the channel of the
\* deleted ticket is still there and nothing refers to it
DeletionLost ==
    /\ last.op = "restart"
    /\ \E c \in 1..MaxChannels : Unowned(c)
    /\ ticket_counter > 0
    /\ DOMAIN active_tickets \cup DOMAIN closed_tickets # 1..ticket_counter

\* C23: a click on a button of a panel, whose custom id is <action>:<ticket
\* id>, runs the handler of that action on that ticket; an id that neither
\* starts with one of the four prefixes nor is create_ticket changes nothing
\* of the tickets.
C23_ButtonDispatch ==
    [][\A u \in Clickers :
          /\ \A n \in TicketIds :
                /\ on_interaction(u, custom_id(CLOSE_TICKET, n)) => close_ticket(u, n)
                /\ on_interaction(u, custom_id(CLAIM_TICKET, n)) => claim_ticket(u, n)
                /\ on_interaction(u, custom_id(DELETE_TICKET, n)) => delete_ticket(u, n)
                /\ on_interaction(u, custom_id(REOPEN_TICKET, n)) => reopen_ticket(u, n)
          /\ \A cid \in CustomIds :
                (/\ on_interaction(u, cid)
                 /\ cid # CREATE_TICKET
                 /\ \A a \in {CLOSE_TICKET, CLAIM_TICKET, DELETE_TICKET, REOPEN_TICKET} :
                       ~startswith(cid, a \o <<":">>))
                => (/\ Reg' = Reg
                    /\ disk' = disk
                    /\ hs' = hs
                    /\ channels' = channels
                    /\ sendPerm' = sendPerm)
      ]_vars

\* the Reopen button of ticket-2 was clicked and its handler runs
C23_Witness ==
    \E r \in InFlight : r.op = "reopen" /\ r.t = 2 /\ r.pc = "perm"

\* this step keeps a record of ticket t
Kept(t) ==
    /\ t \in DOMAIN active_tickets \cup DOMAIN closed_tickets
    /\ t \in DOMAIN active_tickets' \cup DOMAIN closed_tickets'

\* C24: as long as the record of a ticket exists, no step of claim, close
\* or reopen changes its user_id, channel_id, issue or created_at.
C24_CreationFieldsKept ==
    [][\A t \in TicketIds :
          Kept(t) =>
             /\ Record(t)'.user_id = Record(t).user_id
             /\ Record(t)'.channel_id = Record(t).channel_id
             /\ Record(t)'.issue = Record(t).issue
             /\ Record(t)'.created_at = Record(t).created_at]_vars

\* a ticket of user 2 was claimed, closed and reopened by staff member 1
C24_Witness ==
    \E t \in DOMAIN active_tickets :
        /\ active_tickets[t].user_id = 2
        /\ active_tickets[t].claimed_by = 1
        /\ active_tickets[t].closed_by = 1
        /\ active_tickets[t].reopened_by = 1
        /\ active_tickets[t].created_at = "set"
        /\ active_tickets[t].issue \in Issues
        /\ active_tickets[t].channel_id \in channels

\* the status /tickets shows for a record of active_tickets
Listed(ticket) == IF ticket.claimed_by # None THEN "Claimed" ELSE "Open"

\* C28: no step takes claimed_by and claimed_at, or closed_by and closed_at,
\* off a record once they are set; close and reopen leave claimed_by as it
\* is, and a claimed ticket that is reopened is listed as Claimed.
C28_ClaimNeverCleared ==
    [][\A t \in TicketIds :
          /\ Kept(t) =>
                /\ Record(t).claimed_by # None =>
                      (Record(t)'.claimed_by # None /\ Record(t)'.claimed_at = "set")
                /\ Record(t).closed_by # None =>
                      (Record(t)'.closed_by # None /\ Record(t)'.closed_at = "set")
          /\ \A u \in Staff :
                /\ (close_ticket(u, t) /\ t \in DOMAIN closed_tickets') =>
                      /\ closed_tickets'[t].claimed_by = Record(t).claimed_by
                      /\ closed_tickets'[t].claimed_at = Record(t).claimed_at
                /\ (reopen_ticket(u, t) /\ t \in DOMAIN closed_tickets) =>
                      /\ active_tickets'[t].claimed_by = closed_tickets[t].claimed_by
                      /\ active_tickets'[t].claimed_at = closed_tickets[t].claimed_at
                      /\ active_tickets'[t].closed_by = closed_tickets[t].closed_by
                      /\ active_tickets'[t].closed_at = closed_tickets[t].closed_at
                      /\ closed_tickets[t].claimed_by # None =>
                            Listed(active_tickets'[t]) = "Claimed"]_vars

\* a ticket that member 2 claimed and member 1 closed is open again, and
\* /tickets lists it as Claimed
C28_Witness ==
    \E t \in DOMAIN active_tickets :
        /\ active_tickets[t].claimed_by = 2
        /\ active_tickets[t].closed_by = 1
        /\ active_tickets[t].closed_at = "set"
        /\ active_tickets[t].reopened_by # None
        /\ active_tickets[t].status = "open"
        /\ Listed(active_tickets[t]) = "Claimed"
        /\ last.op = "reopen"

\* C25: every record of closed_tickets has status closed and every record
\* of active_tickets has status open, in memory and in the file.
C25_StatusMatchesMap ==
    /\ \A t \in DOMAIN active_tickets : active_tickets[t].status = "open"
    /\ \A t \in DOMAIN closed_tickets : closed_tickets[t].status = "closed"
    /\ \A t \in DOMAIN disk.active : disk.active[t].status = "open"
    /\ \A t \in DOMAIN disk.closed : disk.closed[t].status = "closed"

\* a ticket was closed, reopened and closed again while another is open, and
\* the file holds both
C25_Witness ==
    /\ \E t \in DOMAIN closed_tickets :
          /\ closed_tickets[t].reopened_by # None
          /\ t \in DOMAIN disk.closed
    /\ \E t \in DOMAIN active_tickets : t \in DOMAIN disk.active
    /\ hs = EmptyBag

\* C26: a click on Claim, Close or Reopen by a member who is not of the
\* staff leaves the registry as it is.
C26_StaffOnly ==
    [][\A u \in Requesters, t \in TicketIds :
          (claim_ticket(u, t) \/ close_ticket(u, t) \/ reopen_ticket(u, t))
          => Reg' = Reg]_vars

\* this step is channel.delete of the delete handler r
ChannelDeletedBy(r) ==
    /\ ~Restarted
    /\ r.op = "delete"
    /\ r.pc = "sleep"
    /\ CopiesIn(r, hs') < CopiesIn(r, hs)
    /\ r.chan \in channels
    /\ r.chan \notin channels'

\* C27: when a delete handler deletes a channel, the ticket of the handler
\* is in neither map and no record of the registry names the channel.
C27_ChannelDeletedAfterRecord ==
    [][\A r \in InFlight :
          ChannelDeletedBy(r) =>
             /\ r.t \notin DOMAIN active_tickets \cup DOMAIN closed_tickets
             /\ \A t \in DOMAIN active_tickets \cup DOMAIN closed_tickets :
                    Record(t).channel_id # r.chan]_vars

\* two deletes of one ticket overlap: the first has removed the record and
\* sleeps before channel.delete, the second is still before its del
C27_Witness ==
    \E r1, r2 \in InFlight :
        /\ r1.op = "delete" /\ r1.pc = "sleep" /\ r1.chan \in channels
        /\ r2.op = "delete" /\ r2.pc = "remove" /\ r2.t = r1.t
        /\ r1.t \notin DOMAIN active_tickets \cup DOMAIN closed_tickets

(* ==== the claims: sticky messages ==== *)

\* the sticky commands and the messages of the users, two handlers at most
\* in flight at a time
SpecSticky == Init /\ [][NextSticky]_vars

\* !sticky set given only in a channel that has no sticky message, with no
\* other sticky handler in flight
sticky_set_first(message) ==
    /\ ~HasSticky
    /\ sh = EmptyBag
    /\ sticky_set(message)

NextRepost ==
    \/ \E message \in StickyTexts : sticky_set_first(message)
    \/ sticky_remove
    \/ on_message
    \/ \E r \in BagToSet(sh) :
          \/ sticky_set_sent(r)
          \/ sticky_remove_deleted(r)
          \/ on_message_deleted(r)
          \/ on_message_sent(r)

\* as SpecSticky, with the sticky message set in channels without one only
SpecRepost == Init /\ [][NextRepost]_vars

\* the sticky message the registry records for the channel, if any
Recorded ==
    IF HasSticky THEN {sticky_data[StickyGuild][StickyChannel].last_message_id}
    ELSE {}

\* C29: whenever no sticky handler is in flight, at most one sticky message
\* of the bot exists in the channel, it is the one recorded as
\* last_message_id, and none exists once sticky remove has completed
C29_OneStickyMessage ==
    sh = EmptyBag =>
        /\ Cardinality(posted) <= 1
        /\ posted \subseteq Recorded
        /\ (removed = "removed" => posted = {})

(* ==== the claims: family ==== *)

\* the family commands and the buttons of their messages, two handlers at
\* most waiting at a time
SpecFamily == Init /\ [][NextFamily]_vars

\* C30: the partner relation is symmetric: if A's Partner is B then B's record
\* exists and B's Partner is A
C30_PartnerSymmetric ==
    \A a \in DOMAIN family_data :
        family_data[a].Partner # None =>
            /\ family_data[a].Partner \in DOMAIN family_data
            /\ family_data[family_data[a].Partner].Partner = a

====
